---- MODULE Spec2Model ----
(***************************************************************************)
(* Model of the RAW-to-JPEG batch conversion engine                        *)
(* (src/enhanced_converter.py) and of the ICM profile manager              *)
(* (src/icm_manager.py).                                                   *)
(*                                                                         *)
(* Strings whose characters matter (brand, model, scene, file names) are   *)
(* sequences of one-character strings; error messages are sequences of     *)
(* message parts, outermost wrapper first.                                 *)
(***************************************************************************)
EXTENDS Integers, Sequences, FiniteSets, TLC

\* ------------------------------------------------------------------------
\* Bounds of the model
\* ------------------------------------------------------------------------
MaxFiles == 2
MaxWorkers == 2
NumLoaders == 2
ExtraPaths == 2
MaxScanLen == 1
MaxEvictions == 2
MaxOvertake == 2
NumReaders == 1
MaxCap == 5
MaxCores == 6
MaxMemory == 21
MaxPasses == 2

\* ------------------------------------------------------------------------
\* Strings
\* ------------------------------------------------------------------------
EmptyStr == <<>>
Canon == <<"C", "a", "n", "o", "n">>
Nikon == <<"N", "i", "k", "o", "n">>
EOSR5 == <<"E", "O", "S", "R", "5">>
D850 == <<"D", "8", "5", "0">>
Generic == <<"G", "e", "n", "e", "r", "i", "c">>
Vivid == <<"V", "i", "v", "i", "d">>
FileSystem == <<"F", "i", "l", "e", "S", "y", "s", "t", "e", "m">>
DotIcm == <<".", "i", "c", "m">>
Dash == <<"-">>

\* Python None, and the None slot of the result list
None == [kind |-> "None"]

\* str.replace(ch, '')
RECURSIVE RemoveChar(_, _)
RemoveChar(s, ch) ==
    IF s = <<>> THEN <<>>
    ELSE IF Head(s) = ch THEN RemoveChar(Tail(s), ch)
    ELSE <<Head(s)>> \o RemoveChar(Tail(s), ch)

\* os.path.join(directory, filename)
PathJoin(d, f) == [dir |-> d, name |-> f]

\* ------------------------------------------------------------------------
\* Program constants
\* ------------------------------------------------------------------------
\* len(self.icm_cache) > 100
CacheLimit == 100
IcmDirectory == "DSLR"
OutputDir == "out"

\* ConversionStatus
COMPLETED == "completed"
FAILED == "failed"
SKIPPED == "skipped"

\* ------------------------------------------------------------------------
\* Inputs
\* ------------------------------------------------------------------------
\* Input RAW files: directory, file name without extension, extension.
\* Two of them share the file name in different directories.
InputUniverse ==
    << [dir |-> "in/s1", stem |-> "a", ext |-> ".nef"],
       [dir |-> "in/s1", stem |-> "b", ext |-> ".cr3"],
       [dir |-> "in/s2", stem |-> "a", ext |-> ".nef"] >>

\* Input lists: the files of the universe at increasing positions
RECURSIVE IncreasingSeqs(_, _)
IncreasingSeqs(lo, n) ==
    IF n = 0 THEN {<<>>}
    ELSE UNION { { <<i>> \o s : s \in IncreasingSeqs(i + 1, n - 1) }
                 : i \in lo..Len(InputUniverse) }

InputLists ==
    UNION { { [k \in 1..n |-> InputUniverse[idx[k]]] : idx \in IncreasingSeqs(1, n) }
            : n \in 1..MaxFiles }

\* The manual ICM file a config may point to
ManualPath == PathJoin("manual", <<"m", ".", "i", "c", "m">>)

\* ConversionConfig: the fields the engine's control flow reads; max_threads
\* is 0 for None
AllConfigs ==
    { [enable_icm_correction |-> TRUE, strict_icm |-> s, auto_detect_camera |-> a,
       icm_brand |-> b, icm_model |-> m, icm_scene |-> sc, manual_icm_path |-> mp,
       max_threads |-> 0]
        : s \in BOOLEAN, a \in BOOLEAN, b \in {EmptyStr, Canon},
          m \in {EmptyStr, EOSR5}, sc \in {Generic, Vivid}, mp \in {None, ManualPath} }
    \cup
    { [enable_icm_correction |-> FALSE, strict_icm |-> TRUE, auto_detect_camera |-> a,
       icm_brand |-> EmptyStr, icm_model |-> EmptyStr, icm_scene |-> Generic,
       manual_icm_path |-> None, max_threads |-> 0] : a \in BOOLEAN }

\* Configs of the multi-file runs: the defaults, strict or lenient, or no ICM
BatchConfigs ==
    { c \in AllConfigs : /\ c.auto_detect_camera
                         /\ c.icm_brand = EmptyStr /\ c.icm_model = EmptyStr
                         /\ c.icm_scene = Generic /\ c.manual_icm_path = None }

\* Camera identity the detector reports for a file, after normalisation:
\* (brand, model), or None when the file carries no usable metadata
DetectedCamera(f) ==
    IF f.stem = "a" /\ f.dir = "in/s1" THEN [brand |-> Canon, model |-> EOSR5]
    ELSE IF f.stem = "a" THEN [brand |-> Nikon, model |-> D850]
    ELSE None

\* Profile directory contents and the catalog a scan builds from them
CanonGenericFile == Canon \o EOSR5 \o Dash \o Generic \o DotIcm
NikonGenericFile == Nikon \o D850 \o Dash \o Generic \o DotIcm
CanonVividFile == Canon \o EOSR5 \o Dash \o Vivid \o DotIcm
Directories == { {}, {CanonGenericFile}, {CanonGenericFile, NikonGenericFile} }

\* str.lower(), for the letters file names are made of
UpperLetters == <<"A", "B", "C", "D", "E", "F", "G", "H", "I", "J", "K", "L", "M",
                  "N", "O", "P", "Q", "R", "S", "T", "U", "V", "W", "X", "Y", "Z">>
LowerLetters == <<"a", "b", "c", "d", "e", "f", "g", "h", "i", "j", "k", "l", "m",
                  "n", "o", "p", "q", "r", "s", "t", "u", "v", "w", "x", "y", "z">>
LowerChar(c) ==
    IF \E i \in 1..26 : UpperLetters[i] = c
    THEN LowerLetters[CHOOSE i \in 1..26 : UpperLetters[i] = c]
    ELSE c
ToLower(s) == [i \in 1..Len(s) |-> LowerChar(s[i])]

\* Python truthiness of an optional path ("" and None are false)
EmptyPath == [kind |-> "EmptyString"]
Truthy(p) == p # None /\ p # EmptyPath

Range(s) == { s[i] : i \in 1..Len(s) }

\* ------------------------------------------------------------------------
\* State
\* ------------------------------------------------------------------------
VARIABLES
    \* EnhancedRAWConverter
    config,              \* self.config
    icm_manager,         \* self.icm_manager is not None
    camera_detector,     \* self.camera_detector is not None
    progress_callback,   \* self.progress_callback is set
    status_callback,     \* self.status_callback is set
    max_threads,         \* self.max_threads
    cpu_count,           \* os.cpu_count() or 1
    total_memory,        \* psutil.virtual_memory().total, in units of 512 MiB
    input_dir,           \* the directory given to scan_raw_files: its state and the files under it
    scan_result,         \* what scan_raw_files did: raised, or the list it returned; None before
    summary,             \* what get_summary returned, None before
    index_lists,         \* self.brands, self.models, self.scenes in list order, as the scan in one piece built them; None before
    is_converting,       \* self.is_converting
    metrics,             \* self.metrics
    \* ICMManager
    brand_model_scene_map, \* the (brand, model, scene) triples of the nested dict
    icm_cache,           \* keys of self.icm_cache in insertion order
    disk,                \* profile paths for which os.path.exists holds
    scanned,             \* self._scanned
    brands,              \* self.brands
    models,              \* self.models, as (brand, model) pairs
    scenes,              \* self.scenes, as (brand, model, scene) triples
    lock,                \* the thread holding self._lock, if any
    scan,                \* position of the thread inside scan_icm_files
    readers,             \* threads calling the read operations of the manager
    \* one convert_batch call
    input_files,         \* argument input_files
    max_workers,         \* argument max_workers, 0 for None
    outExists,           \* output paths for which os.path.exists holds
    pc,                  \* position of the calling thread in convert_batch
    results,             \* local results of convert_batch / _convert_parallel
    returned,            \* the value convert_batch returned, None before
    completed_count,     \* local completed_count of _convert_parallel
    cur,                 \* index of the future the as_completed loop holds, 0 if none
    collected,           \* indices the as_completed loop has yielded
    cancel_cursor,       \* next future of the cancel loop
    jobs,                \* per submitted job: future state and locals of convert_single_file
    \* other threads
    loaders,             \* threads inside ICMManager.load_icc_profile
    \* history
    stop_called,         \* stop_conversion() was called during this run
    calls,               \* per job: the external calls it made
    existedAtStart,      \* per job: destination existed when the job started
    existedAtCheck,      \* per job: destination existed at the os.path.exists check
    correction,          \* per job: what apply_icm_correction met
    progress_calls,      \* arguments of the progress callback invocations
    status_calls,        \* arguments of the status callback invocations
    evictions,           \* the entries the profile cache evicted, in order
    metrics_calculated,  \* calculate_metrics() ran in this call
    resolved,            \* per observed triple: the first and the latest get_icm_file call since the last scan
    \* CameraDetector
    camera_info,         \* the make and model extract_camera_info read from a file
    detected             \* the results of the successive normalize_camera_model calls

engineVars == <<config, icm_manager, camera_detector, progress_callback, status_callback,
                max_threads, is_converting, metrics>>
managerVars == <<brand_model_scene_map, icm_cache, disk>>
batchVars == <<input_files, max_workers, outExists, pc, results, returned, completed_count, cur,
               collected, cancel_cursor, jobs>>
historyVars == <<stop_called, calls, existedAtStart, existedAtCheck, correction,
                 progress_calls, status_calls, evictions, metrics_calculated>>
hostVars == <<cpu_count, total_memory, input_dir, scan_result, summary, index_lists>>
catalogVars == <<scanned, brands, models, scenes, lock, scan, readers, resolved>>
detectorVars == <<camera_info, detected>>
vars == <<engineVars, hostVars, managerVars, catalogVars, detectorVars, batchVars, loaders,
          historyVars>>

\* ------------------------------------------------------------------------
\* ICMManager
\* ------------------------------------------------------------------------
\* The brand prefixes of brand_patterns, in the order they are tried
Sony == <<"S", "o", "n", "y">>
Fujifilm == <<"F", "u", "j", "i", "f", "i", "l", "m">>
Olympus == <<"O", "l", "y", "m", "p", "u", "s">>
Panasonic == <<"P", "a", "n", "a", "s", "o", "n", "i", "c">>
Leica == <<"L", "e", "i", "c", "a">>
Pentax == <<"P", "e", "n", "t", "a", "x">>
Samsung == <<"S", "a", "m", "s", "u", "n", "g">>
Apple == <<"A", "p", "p", "l", "e">>
BrandPrefixes == <<Canon, Nikon, Sony, Fujifilm, Olympus, Panasonic, Leica, Pentax,
                   Samsung, Apple>>

\* The values of scene_mapping in _clean_scene_name
Neutral == <<"N", "e", "u", "t", "r", "a", "l">>
Portrait == <<"P", "o", "r", "t", "r", "a", "i", "t">>
SceneMapping ==
    { Neutral, Vivid, Portrait, Generic, Apple,
      <<"S", "t", "a", "n", "d", "a", "r", "d">>,
      <<"L", "a", "n", "d", "s", "c", "a", "p", "e">>,
      <<"M", "o", "n", "o", "c", "h", "r", "o", "m", "e">>,
      <<"F", "l", "a", "t">>,
      <<"P", "r", "o", "S", "t", "a", "n", "d", "a", "r", "d">>,
      <<"D", "a", "y", "l", "i", "g", "h", "t">>,
      <<"F", "l", "a", "s", "h">>,
      <<"S", "u", "n", "s", "e", "t">>,
      <<"T", "u", "n", "g", "s", "t", "e", "n">> }

Digits == {"0", "1", "2", "3", "4", "5", "6", "7", "8", "9"}
IsLetter(c) == \E i \in 1..26 : UpperLetters[i] = c \/ LowerLetters[i] = c
UpperChar(c) ==
    IF \E i \in 1..26 : LowerLetters[i] = c
    THEN UpperLetters[CHOOSE i \in 1..26 : LowerLetters[i] = c]
    ELSE c

\* str.title(): a letter is upper case after a non-letter, lower case after a letter
Title(s) ==
    [i \in 1..Len(s) |-> IF i = 1 \/ ~IsLetter(s[i - 1]) THEN UpperChar(s[i])
                         ELSE LowerChar(s[i])]

\* str.strip(), for the blank
RECURSIVE StripLeft(_)
StripLeft(s) == IF s # <<>> /\ Head(s) = " " THEN StripLeft(Tail(s)) ELSE s
RECURSIVE StripRight(_)
StripRight(s) ==
    IF s # <<>> /\ s[Len(s)] = " " THEN StripRight(SubSeq(s, 1, Len(s) - 1)) ELSE s
Strip(s) == StripLeft(StripRight(s))

\* str.startswith(prefix)
StartsWith(s, prefix) ==
    Len(s) >= Len(prefix) /\ SubSeq(s, 1, Len(prefix)) = prefix

\* str.replace(sub, '') for a non-empty sub
RECURSIVE RemoveSub(_, _)
RemoveSub(s, sub) ==
    IF s = <<>> THEN <<>>
    ELSE IF StartsWith(s, sub) THEN RemoveSub(SubSeq(s, Len(sub) + 1, Len(s)), sub)
    ELSE <<Head(s)>> \o RemoveSub(Tail(s), sub)

\* re.sub(r'[-_]+', ' ', model): every run of '-' and '_' becomes one blank
RECURSIVE CollapseSeparators(_, _)
CollapseSeparators(s, inRun) ==
    IF s = <<>> THEN <<>>
    ELSE IF Head(s) \in {"-", "_"}
         THEN (IF inRun THEN <<>> ELSE <<" ">>) \o CollapseSeparators(Tail(s), TRUE)
         ELSE <<Head(s)>> \o CollapseSeparators(Tail(s), FALSE)

\* _clean_model_name
clean_model_name(model) == Strip(CollapseSeparators(RemoveChar(model, " "), FALSE))

\* re.sub(r'\s+V\d+$', '', scene): a trailing version tag is removed
StripVersion(scene) ==
    LET tags == { j \in 2..(Len(scene) - 1) :
                     /\ scene[j] = "V"
                     /\ scene[j - 1] = " "
                     /\ \A d \in (j + 1)..Len(scene) : scene[d] \in Digits }
    IN  IF tags = {} THEN scene
        ELSE LET j == CHOOSE x \in tags : \A y \in tags : x <= y
                 blanks == { b \in 1..(j - 1) : \A c \in b..(j - 1) : scene[c] = " " }
                 b == CHOOSE x \in blanks : \A y \in blanks : x <= y
             IN  SubSeq(scene, 1, b - 1)

\* _clean_scene_name
clean_scene_name(scene) ==
    LET stripped == StripVersion(scene)
        scene_lower == Strip(ToLower(stripped))
        known == { name \in SceneMapping : ToLower(name) = scene_lower }
    IN  IF known # {} THEN CHOOSE name \in known : TRUE ELSE Title(stripped)

\* One pattern r'^(Brand)(.+?)-(.+?)$' with re.IGNORECASE: the groups, or None.
\* The model group is the shortest non-empty text before a '-' that leaves a
\* non-empty scene.
MatchBrandPattern(basename, prefix) ==
    LET n == Len(prefix)
        rest == SubSeq(basename, n + 1, Len(basename))
        dashes == { i \in 2..(Len(rest) - 1) : rest[i] = "-" }
    IN  IF Len(basename) >= n /\ ToLower(SubSeq(basename, 1, n)) = ToLower(prefix)
           /\ dashes # {}
        THEN LET i == CHOOSE x \in dashes : \A y \in dashes : x <= y
             IN  [brand |-> SubSeq(basename, 1, n), model |-> SubSeq(rest, 1, i - 1),
                  scene |-> SubSeq(rest, i + 1, Len(rest))]
        ELSE None

\* _parse_icm_filename: (brand, model, scene), or None
parse_icm_filename(filename) ==
    LET basename == SubSeq(filename, 1, Len(filename) - Len(DotIcm))
        matching == { p \in 1..Len(BrandPrefixes) :
                         MatchBrandPattern(basename, BrandPrefixes[p]) # None }
    IN  IF matching # {}
        THEN LET p == CHOOSE x \in matching : \A y \in matching : x <= y
                 m == MatchBrandPattern(basename, BrandPrefixes[p])
             IN  [brand |-> Title(m.brand), model |-> clean_model_name(m.model),
                  scene |-> clean_scene_name(m.scene)]
        ELSE IF StartsWith(basename, FileSystem)
        THEN [brand |-> FileSystem, model |-> RemoveSub(basename, FileSystem),
              scene |-> ToLower(Neutral)]
        ELSE None

\* The brand_model_scene_map a scan builds from the files of the directory,
\* as the set of its (brand, model, scene) entries
ScanResult(files) ==
    LET icm == { g \in files : /\ Len(g) >= Len(DotIcm)
                               /\ ToLower(SubSeq(g, Len(g) - Len(DotIcm) + 1, Len(g))) = DotIcm }
    IN  { <<parse_icm_filename(f).brand, parse_icm_filename(f).model,
            parse_icm_filename(f).scene>> : f \in { g \in icm : parse_icm_filename(g) # None } }

\* The file name built from the triple, returned without os.path.exists
ResolvePath_Unchecked(brand, model, scene) ==
    PathJoin(IcmDirectory, brand \o RemoveChar(model, " ") \o Dash \o scene \o DotIcm)

\* A resolution that prefers the profile loaded last
ResolvePath_LoadedFirst(brand, model, scene) ==
    IF icm_cache # <<>> THEN icm_cache[Len(icm_cache)]
    ELSE IF PathJoin(IcmDirectory, brand \o model \o Dash \o scene \o DotIcm) \in disk
    THEN PathJoin(IcmDirectory, brand \o model \o Dash \o scene \o DotIcm)
    ELSE None

\* Lines 288-321 of get_icm_file: the file name built from the triple, then
\* its variants, each tested with os.path.exists
ResolvePath(brand, model, scene) ==
    LET clean_model == RemoveChar(model, " ")
        filename == IF brand = FileSystem
                    THEN FileSystem \o model \o Dash \o scene \o DotIcm
                    ELSE brand \o clean_model \o Dash \o scene \o DotIcm
        icm_path == PathJoin(IcmDirectory, filename)
        variants == << brand \o model \o Dash \o scene \o DotIcm,
                       brand \o ToLower(model) \o Dash \o scene \o DotIcm,
                       brand \o clean_model \o Dash \o scene \o DotIcm >>
        hits == { i \in 1..3 : PathJoin(IcmDirectory, variants[i]) \in disk }
    IN  IF icm_path \in disk THEN icm_path
        ELSE IF hits # {}
             THEN PathJoin(IcmDirectory, variants[CHOOSE i \in hits : \A j \in hits : i <= j])
             ELSE None

\* ICMManager.get_icm_file run in one piece, on a scanned manager and
\* outside a PyInstaller bundle
get_icm_file(brand, model, scene) ==
    IF <<brand, model, scene>> \notin brand_model_scene_map THEN None
    ELSE ResolvePath(brand, model, scene)

\* The locked section evicting the newest entry instead of the oldest
CacheInsert_EvictNewest(cache, icm_path) ==
    LET kept == IF Len(cache) > CacheLimit THEN SubSeq(cache, 1, Len(cache) - 1) ELSE cache
    IN  IF icm_path \in Range(kept) THEN kept ELSE Append(kept, icm_path)

\* The locked section of ICMManager.load_icc_profile: evict, then insert
CacheInsert(cache, icm_path) ==
    LET kept == IF Len(cache) > CacheLimit THEN Tail(cache) ELSE cache
    IN  IF icm_path \in Range(kept) THEN kept ELSE Append(kept, icm_path)

\* The entry the locked section evicts, if any
CacheEvicted(cache) ==
    IF Len(cache) > CacheLimit THEN <<Head(cache)>> ELSE <<>>

\* ------------------------------------------------------------------------
\* EnhancedRAWConverter: helpers
\* ------------------------------------------------------------------------
N == Len(input_files)
Jobs == 1..N

\* prepare_output_path: the input's file name alone, extension swapped
prepare_output_path(input_path) ==
    [dir |-> OutputDir, stem |-> input_path.stem, ext |-> ".jpg"]

\* file_pairs[i] of convert_batch
FilePair(i) == [input |-> input_files[i], output |-> prepare_output_path(input_files[i])]

\* detect_camera_from_file: (brand, model), ("", "") when nothing was detected
NoCamera == [brand |-> EmptyStr, model |-> EmptyStr]
\* No metadata was read
NoCameraInfo == [make |-> <<>>, model |-> <<>>]
\* What reading the metadata of a RAW file meets: the file is not there,
\* rawpy.imread raises, or the metadata is read
ReadOutcomes == {"missing", "unopenable", "read"}

\* CameraDetector.extract_camera_info: None for a missing file and for any
\* exception of the read, else the make and model of the file
extract_camera_info(raw_path, read) ==
    IF read = "missing" THEN None
    ELSE IF read = "unopenable" THEN None
    ELSE [kind |-> "info", of |-> raw_path]

\* CameraDetector.detect_camera_from_raw: None without metadata, with an empty
\* make and model, and with an identity that normalises to Unknown
detect_camera_from_raw(raw_path, read) ==
    IF extract_camera_info(raw_path, read) = None THEN None
    ELSE DetectedCamera(raw_path)

\* detect_camera_from_file letting the exception of an unopenable file out
detect_camera_from_file_Unguarded(raw_path, read) ==
    IF ~camera_detector THEN [raised |-> FALSE, camera |-> NoCamera]
    ELSE IF read = "unopenable" THEN [raised |-> TRUE, camera |-> NoCamera]
    ELSE LET result == detect_camera_from_raw(raw_path, read)
         IN  [raised |-> FALSE, camera |-> IF result # None THEN result ELSE NoCamera]

\* detect_camera_from_file: the identity, ("", "") without a detector, when
\* nothing was detected and when the detector raised; raised is whether the
\* call itself raises
detect_camera_from_file(raw_path, read) ==
    IF ~camera_detector THEN [raised |-> FALSE, camera |-> NoCamera]
    ELSE LET result == detect_camera_from_raw(raw_path, read)
         IN  [raised |-> FALSE, camera |-> IF result # None THEN result ELSE NoCamera]

\* determine_icm_file with the detected camera taking precedence over the config
determine_icm_file_DetectedFirst(detected_brand, detected_model) ==
    IF ~icm_manager THEN None
    ELSE IF config.manual_icm_path # None /\ config.manual_icm_path \in disk
         THEN config.manual_icm_path
    ELSE
        LET brand == IF detected_brand # EmptyStr THEN detected_brand ELSE config.icm_brand
            model == IF detected_model # EmptyStr THEN detected_model ELSE config.icm_model
            scene == config.icm_scene
        IN  IF brand = EmptyStr \/ model = EmptyStr THEN None
            ELSE get_icm_file(brand, model, scene)

\* determine_icm_file
determine_icm_file(detected_brand, detected_model) ==
    IF ~icm_manager THEN None
    ELSE IF config.manual_icm_path # None /\ config.manual_icm_path \in disk
         THEN config.manual_icm_path
    ELSE
        LET brand == IF config.icm_brand # EmptyStr THEN config.icm_brand ELSE detected_brand
            model == IF config.icm_model # EmptyStr THEN config.icm_model ELSE detected_model
            scene == config.icm_scene
        IN  IF brand = EmptyStr \/ model = EmptyStr THEN None
            ELSE get_icm_file(brand, model, scene)

\* os.path.getsize of an input file and of the JPEG written for it, in MiB
RawSize(f) == IF f.stem = "a" THEN 8 ELSE 6
JpegSize(f) == IF f.stem = "a" THEN 2 ELSE 3

\* ConversionResult of convert_single_file
Result(i, status, msg, camera, applied, file) ==
    [input_path |-> FilePair(i).input, output_path |-> FilePair(i).output,
     status |-> status, error_message |-> msg,
     file_size_input |-> RawSize(FilePair(i).input),
     file_size_output |-> IF status = COMPLETED THEN JpegSize(FilePair(i).input) ELSE 0,
     camera_brand |-> camera.brand, camera_model |-> camera.model,
     icm_applied |-> applied, icm_file |-> file]

\* ConversionMetrics()
NewMetrics == [total_files |-> 0, completed_files |-> 0, failed_files |-> 0,
               skipped_files |-> 0, total_size_input |-> 0, total_size_output |-> 0]

\* ConversionMetrics.add_result
add_result(m, result) ==
    LET m1 == [m EXCEPT !.total_files = @ + 1]
    IN  IF result.status = COMPLETED
        THEN [m1 EXCEPT !.completed_files = @ + 1,
                        !.total_size_input = @ + result.file_size_input,
                        !.total_size_output = @ + result.file_size_output]
        ELSE IF result.status = FAILED THEN [m1 EXCEPT !.failed_files = @ + 1]
        ELSE IF result.status = SKIPPED THEN [m1 EXCEPT !.skipped_files = @ + 1]
        ELSE m1

\* The loop of convert_batch's finally block over the result list.  A None
\* slot raises AttributeError at result.status, after total_files += 1.
RECURSIVE FoldResults(_, _)
FoldResults(m, rs) ==
    IF rs = <<>> THEN [metrics |-> m, raised |-> FALSE]
    ELSE IF Head(rs) = None
         THEN [metrics |-> [m EXCEPT !.total_files = @ + 1], raised |-> TRUE]
         ELSE FoldResults(add_result(m, Head(rs)), Tail(rs))

\* A quotient of integers, kept exact
Ratio(num, den) == [num |-> num, den |-> den]

\* get_summary with the difference taken before the multiplication
get_summary_DifferenceFirst(m) ==
    [total_files |-> m.total_files, completed |-> m.completed_files,
     failed |-> m.failed_files, skipped |-> m.skipped_files,
     success_rate |-> IF m.total_files > 0
                      THEN Ratio(m.completed_files * 100, m.total_files)
                      ELSE Ratio(0, 1),
     size_compression |-> IF m.total_size_input > 0
                          THEN Ratio((m.total_size_input - m.total_size_output) * 100,
                                     m.total_size_input)
                          ELSE Ratio(0, 1)]

\* get_summary: size_compression is 1 - total_size_output / total_size_input * 100,
\* the quotient multiplied by 100 and then taken from 1
get_summary(m) ==
    [total_files |-> m.total_files, completed |-> m.completed_files,
     failed |-> m.failed_files, skipped |-> m.skipped_files,
     success_rate |-> IF m.total_files > 0
                      THEN Ratio(m.completed_files * 100, m.total_files)
                      ELSE Ratio(0, 1),
     size_compression |-> IF m.total_size_input > 0
                          THEN Ratio(m.total_size_input - m.total_size_output * 100,
                                     m.total_size_input)
                          ELSE Ratio(0, 1)]

\* self.metrics = ConversionMetrics() left out: the accumulator of the run before
StartMetrics_Keep(m) == m
\* self.metrics = ConversionMetrics() at the start of convert_batch
StartMetrics(m) == NewMetrics

\* The accumulator an earlier run of the engine over InputUniverse[1] left,
\* its one file Completed
EarlierRun ==
    [NewMetrics EXCEPT !.total_files = 1, !.completed_files = 1,
                       !.total_size_input = RawSize(InputUniverse[1]),
                       !.total_size_output = JpegSize(InputUniverse[1])]

Min(a, b) == IF a <= b THEN a ELSE b
Max(a, b) == IF a >= b THEN a ELSE b

\* min(optimal_threads, 4)
ThreadCap == 4

\* _detect_optimal_threads without the final cap
detect_optimal_threads_NoCap(cap, cores, memory) ==
    IF cap # 0 THEN Min(cap, cores)
    ELSE Min(cores, Max(1, memory \div 4))

\* _detect_optimal_threads: cap is config.max_threads (a cap of 0 or None is
\* no cap), memory the total memory in units of 512 MiB, so that
\* int(memory_gb / 2) is memory \div 4
detect_optimal_threads(cap, cores, memory) ==
    IF cap # 0 THEN Min(cap, cores)
    ELSE Min(Min(cores, Max(1, memory \div 4)), ThreadCap)

\* Memory of the host of the conversion runs: enough for MaxWorkers threads
HostMemory == 4 * MaxWorkers

\* workers = max_workers or self.max_threads
Workers_Unbounded == Len(input_files)
Workers == IF max_workers # 0 THEN max_workers ELSE max_threads

Running == { i \in Jobs : jobs[i].pc \in {"entered", "decode", "correct", "encode"} }
Pending == { i \in Jobs : jobs[i].pc = "pending" }

\* ------------------------------------------------------------------------
\* Initial states: a constructed engine and manager, before convert_batch
\* ------------------------------------------------------------------------
Idle == [pc |-> "idle", path |-> None, overtaken |-> 0]
IdleLoaders == [t \in 1..NumLoaders |-> Idle]

ProfilePaths(files) == { PathJoin(IcmDirectory, f) : f \in files }

\* A directory and the catalog the scan of the constructor built from it
CatalogOf(files) == [files |-> files, map |-> ScanResult(files)]
Catalogs == { CatalogOf(files) : files \in Directories }
DefaultCatalog == CatalogOf({CanonGenericFile})

\* The index lists a finished scan derives from the map
BrandsOf(map) == { t[1] : t \in map }
ModelsOf(map) == { <<t[1], t[2]>> : t \in map }

\* No thread is inside scan_icm_files
IdleScan == [pc |-> "idle", k |-> 0]

\* What a call of the manager returned: a list (as the set of its items), a
\* path, a profile handle, None, or the KeyError it raised
ListOf(items) == [kind |-> "List", items |-> items]
ProfileHandle == [kind |-> "Profile"]
KeyError == [kind |-> "KeyError"]

\* The triples get_icm_file is asked for: two with a profile file, one without
QueryTriples == { <<Canon, EOSR5, Generic>>, <<Nikon, D850, Generic>>,
                  <<Canon, EOSR5, Portrait>> }

IdleReader == [pc |-> "idle", op |-> "none", arg |-> <<EmptyStr, EmptyStr, EmptyStr>>,
               base |-> {}, result |-> None, tainted |-> FALSE]
IdleReaders == [t \in 1..NumReaders |-> IdleReader]
NoneResolved == [q \in QueryTriples |-> <<>>]

Init ==
    /\ input_files \in InputLists
    /\ config \in (IF Len(input_files) = 1 THEN AllConfigs ELSE BatchConfigs)
    /\ icm_manager = config.enable_icm_correction
    /\ camera_detector = config.enable_icm_correction
    /\ \E cat \in (IF Len(input_files) = 1 THEN Catalogs ELSE {DefaultCatalog}) :
          /\ brand_model_scene_map = cat.map
          /\ brands = BrandsOf(cat.map)
          /\ models = ModelsOf(cat.map)
          /\ scenes = cat.map
          /\ disk \in (IF config.manual_icm_path # None
                       THEN {ProfilePaths(cat.files), ProfilePaths(cat.files) \cup {ManualPath}}
                       ELSE {ProfilePaths(cat.files)})
    /\ scanned = TRUE
    /\ lock = {}
    /\ scan = IdleScan
    /\ readers = IdleReaders
    /\ resolved = NoneResolved
    /\ progress_callback \in BOOLEAN
    /\ status_callback = progress_callback
    /\ \E sizing \in (IF Len(input_files) = 1 THEN {<<0, 1>>}
                      ELSE { <<0, w>> : w \in 1..MaxWorkers }
                           \cup { <<w, 1>> : w \in 2..MaxWorkers }) :
          /\ max_workers = sizing[1]
          /\ cpu_count = sizing[2]
          /\ total_memory = HostMemory
          /\ max_threads = detect_optimal_threads(config.max_threads, cpu_count, total_memory)
    /\ outExists \in {{}, {prepare_output_path(InputUniverse[1])}}
    /\ is_converting = FALSE
    /\ metrics \in (IF outExists = {} THEN {NewMetrics} ELSE {NewMetrics, EarlierRun})
    /\ icm_cache = <<>>
    /\ pc = "idle"
    /\ results = <<>>
    /\ returned = None
    /\ completed_count = 0
    /\ cur = 0
    /\ collected = {}
    /\ cancel_cursor = 0
    /\ jobs = [i \in 1..Len(input_files) |->
                 [pc |-> "pending", camera |-> NoCamera, icm_file |-> EmptyPath, result |-> None]]
    /\ loaders = IdleLoaders
    /\ stop_called = FALSE
    /\ calls = [i \in 1..Len(input_files) |-> {}]
    /\ existedAtStart = [i \in 1..Len(input_files) |-> FALSE]
    /\ existedAtCheck = [i \in 1..Len(input_files) |-> FALSE]
    /\ correction = [i \in 1..Len(input_files) |-> "none"]
    /\ progress_calls = <<>>
    /\ status_calls = <<>>
    /\ evictions = <<>>
    /\ metrics_calculated = FALSE
    /\ camera_info = NoCameraInfo
    /\ detected = <<>>
    /\ input_dir = [state |-> "missing", files |-> {}]
    /\ scan_result = None
    /\ index_lists = None
    /\ summary = IF metrics = NewMetrics THEN None ELSE get_summary(metrics)

\* ------------------------------------------------------------------------
\* convert_single_file, one job
\* ------------------------------------------------------------------------
JobDone(i, result) == jobs' = [jobs EXCEPT ![i].pc = "done", ![i].result = result]

\* Entry of convert_single_file: timing and input size, locals initialised
ConvertEntry(i) ==
    /\ jobs[i].pc = "pending"
    /\ jobs' = [jobs EXCEPT ![i].pc = "entered"]
    /\ existedAtStart' = [existedAtStart EXCEPT ![i] = FilePair(i).output \in outExists]

\* os.path.exists(output_path) of convert_single_file
DestinationExists_Never(i) == FALSE
DestinationExists_Always(i) == TRUE
DestinationExists(i) == FilePair(i).output \in outExists

\* makedirs, the existence check, camera detection and profile selection
JobCheck(i) ==
    /\ jobs[i].pc = "entered"
    /\ existedAtCheck' = [existedAtCheck EXCEPT ![i] = FilePair(i).output \in outExists]
    /\ \/ \* os.makedirs raises; it cannot when the destination file is there
          /\ FilePair(i).output \notin outExists
          /\ JobDone(i, Result(i, FAILED, <<"MakedirsFailed">>, NoCamera, FALSE, EmptyPath))
          /\ UNCHANGED calls
       \/ \* the destination exists
          /\ DestinationExists(i)
          /\ JobDone(i, Result(i, SKIPPED, <<"OutputExists">>, NoCamera, FALSE, EmptyPath))
          /\ UNCHANGED calls
       \/ /\ ~DestinationExists(i)
          /\ \E read \in ReadOutcomes :
                LET detect == config.auto_detect_camera /\ camera_detector
                    detection == IF detect
                                 THEN detect_camera_from_file(FilePair(i).input, read)
                                 ELSE [raised |-> FALSE, camera |-> NoCamera]
                    camera == detection.camera
                    icm_file == IF config.enable_icm_correction
                                THEN determine_icm_file(camera.brand, camera.model)
                                ELSE EmptyPath
                IN  /\ IF detection.raised
                       THEN JobDone(i, Result(i, FAILED, <<"DetectFailed">>, NoCamera,
                                              FALSE, EmptyPath))
                       ELSE jobs' = [jobs EXCEPT ![i].pc = "decode", ![i].camera = camera,
                                                 ![i].icm_file = icm_file]
                    /\ calls' = [calls EXCEPT
                                   ![i] = @ \cup (IF detect THEN {"detect"} ELSE {})]
    /\ UNCHANGED <<engineVars, managerVars, catalogVars, hostVars, detectorVars, loaders, input_files, max_workers, outExists, pc,
                   results, returned, completed_count, cur, collected, cancel_cursor,
                   stop_called, existedAtStart, correction, progress_calls, status_calls,
                   evictions, metrics_calculated>>

\* _convert_with_rawpy: rawpy.imread and postprocess
JobDecode(i) ==
    /\ jobs[i].pc = "decode"
    /\ calls' = [calls EXCEPT ![i] = @ \cup {"decode"}]
    /\ \/ jobs' = [jobs EXCEPT ![i].pc = IF config.enable_icm_correction
                                          THEN "correct" ELSE "encode"]
       \/ JobDone(i, Result(i, FAILED, <<"ConvertFailed", "DecodeFailed">>,
                            jobs[i].camera, FALSE, jobs[i].icm_file))
    /\ UNCHANGED <<engineVars, managerVars, catalogVars, hostVars, detectorVars, loaders, input_files, max_workers, outExists, pc,
                   results, returned, completed_count, cur, collected, cancel_cursor,
                   stop_called, existedAtStart, existedAtCheck, correction, progress_calls,
                   status_calls, evictions, metrics_calculated>>

\* ICMManager.load_icc_profile run in one piece by a job; openOk is whether
\* ImageCms.ImageCmsProfile(icm_path) succeeds
load_icc_profile(icm_path, openOk) ==
    IF icm_path \notin disk
    THEN [ok |-> FALSE, cache |-> icm_cache, evicted |-> <<>>]
    ELSE IF icm_path \in Range(icm_cache)
    THEN [ok |-> TRUE, cache |-> icm_cache, evicted |-> <<>>]
    ELSE IF openOk
    THEN [ok |-> TRUE, cache |-> CacheInsert(icm_cache, icm_path),
          evicted |-> CacheEvicted(icm_cache)]
    ELSE [ok |-> FALSE, cache |-> icm_cache, evicted |-> <<>>]

\* apply_icm_correction going on without a profile also under strict mode
apply_icm_correction_IgnoreMissing(camera, openOk, transformOk) ==
    LET icm_path == determine_icm_file(camera.brand, camera.model)
        same == [raised |-> FALSE, msg |-> <<>>, met |-> "disabled",
                 cache |-> icm_cache, evicted |-> <<>>]
    IN  IF ~config.enable_icm_correction THEN same
        ELSE IF ~Truthy(icm_path)
        THEN [same EXCEPT !.met = "not_found"]
        ELSE
            LET loaded == load_icc_profile(icm_path, openOk)
                failure == IF ~loaded.ok THEN "load_failed"
                           ELSE IF ~transformOk THEN "transform_failed"
                           ELSE "applied"
                after == [same EXCEPT !.cache = loaded.cache, !.evicted = loaded.evicted,
                                      !.met = failure]
            IN  IF failure = "applied" THEN after
                ELSE IF config.strict_icm
                THEN [after EXCEPT !.raised = TRUE,
                                   !.msg = <<"IcmCorrectionFailed", failure>>]
                ELSE after

\* apply_icm_correction going on after a failed load or transform also under
\* strict mode
apply_icm_correction_SwallowFailure(camera, openOk, transformOk) ==
    LET icm_path == determine_icm_file(camera.brand, camera.model)
        same == [raised |-> FALSE, msg |-> <<>>, met |-> "disabled",
                 cache |-> icm_cache, evicted |-> <<>>]
    IN  IF ~config.enable_icm_correction THEN same
        ELSE IF ~Truthy(icm_path)
        THEN IF config.strict_icm
             THEN [same EXCEPT !.raised = TRUE, !.msg = <<"IcmFileNotFound">>,
                               !.met = "not_found"]
             ELSE [same EXCEPT !.met = "not_found"]
        ELSE
            LET loaded == load_icc_profile(icm_path, openOk)
                failure == IF ~loaded.ok THEN "load_failed"
                           ELSE IF ~transformOk THEN "transform_failed"
                           ELSE "applied"
                after == [same EXCEPT !.cache = loaded.cache, !.evicted = loaded.evicted,
                                      !.met = failure]
            IN  after

\* apply_icm_correction; transformOk is whether ImageCms.profileToProfile succeeds.
\* met: what the call met; raised/msg: the exception it raises, if any.
apply_icm_correction(camera, openOk, transformOk) ==
    LET icm_path == determine_icm_file(camera.brand, camera.model)
        same == [raised |-> FALSE, msg |-> <<>>, met |-> "disabled",
                 cache |-> icm_cache, evicted |-> <<>>]
    IN  IF ~config.enable_icm_correction THEN same
        ELSE IF ~Truthy(icm_path)
        THEN IF config.strict_icm
             THEN [same EXCEPT !.raised = TRUE, !.msg = <<"IcmFileNotFound">>,
                               !.met = "not_found"]
             ELSE [same EXCEPT !.met = "not_found"]
        ELSE
            LET loaded == load_icc_profile(icm_path, openOk)
                failure == IF ~loaded.ok THEN "load_failed"
                           ELSE IF ~transformOk THEN "transform_failed"
                           ELSE "applied"
                after == [same EXCEPT !.cache = loaded.cache, !.evicted = loaded.evicted,
                                      !.met = failure]
            IN  IF failure = "applied" THEN after
                ELSE IF config.strict_icm
                THEN [after EXCEPT !.raised = TRUE,
                                   !.msg = <<"IcmCorrectionFailed", failure>>]
                ELSE after

\* _convert_with_rawpy: the colour correction step
JobCorrect(i) ==
    /\ jobs[i].pc = "correct"
    /\ \E openOk \in BOOLEAN, transformOk \in BOOLEAN :
          LET r == apply_icm_correction(jobs[i].camera, openOk, transformOk)
          IN  /\ IF r.raised
                 THEN JobDone(i, Result(i, FAILED, <<"ConvertFailed">> \o r.msg,
                                        jobs[i].camera, FALSE, jobs[i].icm_file))
                 ELSE jobs' = [jobs EXCEPT ![i].pc = "encode"]
              /\ icm_cache' = r.cache
              /\ evictions' = evictions \o r.evicted
              /\ correction' = [correction EXCEPT ![i] = r.met]
    /\ calls' = [calls EXCEPT ![i] = @ \cup {"correct"}]
    /\ UNCHANGED <<engineVars, brand_model_scene_map, disk, catalogVars, hostVars, detectorVars, loaders,
                   input_files,
                   max_workers, outExists, pc, results, returned, completed_count, cur,
                   collected, cancel_cursor, stop_called, existedAtStart, existedAtCheck,
                   progress_calls, status_calls, metrics_calculated>>

\* _convert_with_rawpy: imageio.imwrite, and the result of convert_single_file
JobEncode(i) ==
    /\ jobs[i].pc = "encode"
    /\ calls' = [calls EXCEPT ![i] = @ \cup {"encode"}]
    /\ \/ /\ outExists' = outExists \cup {FilePair(i).output}
          /\ JobDone(i, Result(i, COMPLETED, <<>>, jobs[i].camera,
                               config.enable_icm_correction /\ Truthy(jobs[i].icm_file),
                               jobs[i].icm_file))
       \/ /\ JobDone(i, Result(i, FAILED, <<"ConvertFailed", "EncodeFailed">>,
                               jobs[i].camera, FALSE, jobs[i].icm_file))
          /\ UNCHANGED outExists
    /\ UNCHANGED <<engineVars, managerVars, catalogVars, hostVars, detectorVars, loaders, input_files, max_workers, pc,
                   results, returned, completed_count, cur, collected, cancel_cursor,
                   stop_called, existedAtStart, existedAtCheck, correction, progress_calls,
                   status_calls, evictions, metrics_calculated>>

\* ------------------------------------------------------------------------
\* convert_batch and _convert_parallel, the calling thread
\* ------------------------------------------------------------------------
\* str(e) of an exception a callback raises
CallbackErrorTexts == {<<"CallbackError">>, <<>>}

\* convert_batch up to the choice between the inline and the pooled path;
\* os.makedirs inside prepare_output_path may raise, outside any try
ConvertBatchBegin ==
    /\ pc = "idle"
    /\ input_files # <<>>
    /\ is_converting' = TRUE
    /\ metrics' = StartMetrics(metrics)
    /\ \/ pc' = "raised"
       \/ pc' = IF Len(input_files) = 1 THEN "inline" ELSE "submit"
    /\ UNCHANGED <<config, icm_manager, camera_detector, progress_callback, status_callback,
                   max_threads, managerVars, catalogVars, hostVars, detectorVars, loaders, input_files, max_workers, outExists,
                   results, returned, completed_count, cur, collected, cancel_cursor, jobs,
                   historyVars>>

\* Single file: convert_single_file is called on the calling thread
InlineCall ==
    /\ pc = "inline"
    /\ ConvertEntry(1)
    /\ pc' = "inline_run"
    /\ UNCHANGED <<engineVars, managerVars, catalogVars, hostVars, detectorVars, loaders, input_files, max_workers, outExists,
                   results, returned, completed_count, cur, collected, cancel_cursor,
                   stop_called, calls, existedAtCheck, correction, progress_calls,
                   status_calls, evictions, metrics_calculated>>

InlineReturn ==
    /\ pc = "inline_run"
    /\ jobs[1].pc = "done"
    /\ results' = <<jobs[1].result>>
    /\ pc' = "finally"
    /\ UNCHANGED <<engineVars, managerVars, catalogVars, hostVars, detectorVars, loaders, input_files, max_workers, outExists,
                   returned, completed_count, cur, collected, cancel_cursor, jobs,
                   historyVars>>

\* _convert_parallel: the result slots, the pool and the submission of every job
SubmitAll ==
    /\ pc = "submit"
    /\ results' = [i \in Jobs |-> None]
    /\ completed_count' = 0
    /\ pc' = "collect"
    /\ UNCHANGED <<engineVars, managerVars, catalogVars, hostVars, detectorVars, loaders, input_files, max_workers, outExists,
                   returned, cur, collected, cancel_cursor, jobs, historyVars>>

\* A pool worker takes the next job of the work queue
PoolStartJob(i) ==
    /\ pc \in {"collect", "handle", "cancel", "shutdown"}
    /\ i \in Pending
    /\ \A j \in Pending : i <= j
    /\ Cardinality(Running) < Workers
    /\ ConvertEntry(i)
    /\ UNCHANGED <<engineVars, managerVars, catalogVars, hostVars, detectorVars, loaders, input_files, max_workers, outExists, pc,
                   results, returned, completed_count, cur, collected, cancel_cursor,
                   stop_called, calls, existedAtCheck, correction, progress_calls,
                   status_calls, evictions, metrics_calculated>>

\* if not self.is_converting, at the top of the loop body
StopObserved_Never == FALSE
StopObserved == ~is_converting

\* as_completed yields a finished future; the loop body checks is_converting
CollectTake(i) ==
    /\ pc = "collect"
    /\ i \in Jobs \ collected
    /\ jobs[i].pc = "done"
    /\ collected' = collected \cup {i}
    /\ IF StopObserved
       THEN pc' = "cancel" /\ cancel_cursor' = 1 /\ cur' = 0
       ELSE pc' = "handle" /\ cur' = i /\ UNCHANGED cancel_cursor
    /\ UNCHANGED <<engineVars, managerVars, catalogVars, hostVars, detectorVars, loaders, input_files, max_workers, outExists,
                   results, returned, completed_count, jobs, historyVars>>

\* results[index] = ...
StoreResult_InCompletionOrder(rs, index, result) ==
    [rs EXCEPT ![CHOOSE k \in 1..Len(rs) : rs[k] = None /\ \A j \in 1..(k - 1) : rs[j] # None]
                  = result]
StoreResult(rs, index, result) == [rs EXCEPT ![index] = result]

\* The loop body for the future it holds: slot, count, callbacks, except branch
CollectHandle ==
    /\ pc = "handle"
    /\ LET result == jobs[cur].result
           k == completed_count + 1
       IN  \E raise \in {"none"} \cup (IF progress_callback THEN {"progress"} ELSE {})
                                 \cup (IF status_callback THEN {"status"} ELSE {}) :
           \E text \in (IF raise = "none" THEN {<<>>} ELSE CallbackErrorTexts) :
              /\ completed_count' = k
              /\ progress_calls' = IF progress_callback
                                   THEN Append(progress_calls, <<k, N>>)
                                   ELSE progress_calls
              /\ status_calls' = IF status_callback /\ raise # "progress"
                                 THEN Append(status_calls, <<result.status, cur>>)
                                 ELSE status_calls
              /\ results' = IF raise = "none" THEN StoreResult(results, cur, result)
                             ELSE StoreResult(results, cur,
                                      [Result(cur, FAILED, text, NoCamera, FALSE, EmptyPath)
                                          EXCEPT !.file_size_input = 0])
    /\ pc' = "collect"
    /\ cur' = 0
    /\ UNCHANGED <<engineVars, managerVars, catalogVars, hostVars, detectorVars, loaders, input_files, max_workers, outExists,
                   returned, collected, cancel_cursor, jobs, stop_called, calls,
                   existedAtStart, existedAtCheck, correction, evictions,
                   metrics_calculated>>

\* as_completed is exhausted: the loop ends
CollectEnd ==
    /\ pc = "collect"
    /\ collected = Jobs
    /\ pc' = "shutdown"
    /\ UNCHANGED <<engineVars, managerVars, catalogVars, hostVars, detectorVars, loaders, input_files, max_workers, outExists,
                   results, returned, completed_count, cur, collected, cancel_cursor, jobs,
                   historyVars>>

\* One f.cancel() of the cancel loop; after the last one, break
CancelStep ==
    /\ pc = "cancel"
    /\ jobs' = [jobs EXCEPT ![cancel_cursor].pc =
                   IF @ = "pending" THEN "cancelled" ELSE @]
    /\ cancel_cursor' = cancel_cursor + 1
    /\ pc' = IF cancel_cursor = N THEN "shutdown" ELSE "cancel"
    /\ UNCHANGED <<engineVars, managerVars, catalogVars, hostVars, detectorVars, loaders, input_files, max_workers, outExists,
                   results, returned, completed_count, cur, collected, historyVars>>

\* shutdown(wait=True) returns once every job that was not cancelled has run
PoolDrained_NoWait == TRUE
\* A shutdown that never returns
PoolDrained_Never == FALSE
PoolDrained == \A i \in Jobs : jobs[i].pc \in {"done", "cancelled"}

\* Exit of the with block: executor.shutdown(wait=True)
Shutdown ==
    /\ pc = "shutdown"
    /\ PoolDrained
    /\ pc' = "finally"
    /\ UNCHANGED <<engineVars, managerVars, catalogVars, hostVars, detectorVars, loaders, input_files, max_workers, outExists,
                   results, returned, completed_count, cur, collected, cancel_cursor, jobs,
                   historyVars>>

\* The finally block of convert_batch, then return or propagate
Finally ==
    /\ pc = "finally"
    /\ is_converting' = FALSE
    /\ LET f == FoldResults(metrics, results)
       IN  /\ metrics' = f.metrics
           /\ metrics_calculated' = ~f.raised
           /\ pc' = IF f.raised THEN "raised" ELSE "returned"
           /\ returned' = IF f.raised THEN None ELSE results
    /\ UNCHANGED <<config, icm_manager, camera_detector, progress_callback, status_callback,
                   max_threads, managerVars, catalogVars, hostVars, detectorVars, loaders, input_files, max_workers, outExists,
                   results, completed_count, cur, collected, cancel_cursor, jobs,
                   stop_called, calls, existedAtStart, existedAtCheck, correction,
                   progress_calls, status_calls, evictions>>

\* stop_conversion(), called from another thread during the run
StopConversion ==
    /\ pc \notin {"idle", "returned", "raised"}
    /\ ~stop_called
    /\ is_converting' = FALSE
    /\ stop_called' = TRUE
    /\ UNCHANGED <<config, icm_manager, camera_detector, progress_callback, status_callback,
                   max_threads, metrics, managerVars, catalogVars, hostVars, detectorVars, loaders, batchVars, calls,
                   existedAtStart, existedAtCheck, correction, progress_calls, status_calls,
                   evictions, metrics_calculated>>

Next ==
    \/ ConvertBatchBegin
    \/ InlineCall
    \/ InlineReturn
    \/ SubmitAll
    \/ \E i \in Jobs : PoolStartJob(i)
    \/ \E i \in Jobs : JobCheck(i)
    \/ \E i \in Jobs : JobDecode(i)
    \/ \E i \in Jobs : JobCorrect(i)
    \/ \E i \in Jobs : JobEncode(i)
    \/ \E i \in Jobs : CollectTake(i)
    \/ CollectHandle
    \/ CollectEnd
    \/ CancelStep
    \/ Shutdown
    \/ Finally
    \/ StopConversion

Spec == Init /\ [][Next]_vars

TypeOK ==
    /\ pc \in {"new", "idle", "inline", "inline_run", "submit", "collect", "handle", "cancel",
               "shutdown", "finally", "returned", "raised"}
    /\ is_converting \in BOOLEAN
    /\ Len(icm_cache) <= CacheLimit + 1

\* ------------------------------------------------------------------------
\* ICMManager.load_icc_profile and scan_icm_files called from several threads
\* ------------------------------------------------------------------------
\* Profile files of the cache scenario, more than the cache can hold
NumProfiles == CacheLimit + ExtraPaths
ProfileNo(n) == PathJoin(IcmDirectory, <<"profile", n>>)
OnDisk == { ProfileNo(n) : n \in 1..NumProfiles }
MissingProfile == ProfileNo(0)

\* The paths a caller asks for: the first profile not cached, the oldest
\* cached one, and a file that does not exist
Requested ==
    LET cached == Range(icm_cache)
        missing == { n \in 1..NumProfiles : ProfileNo(n) \notin cached }
        fresh == { ProfileNo(n) : n \in { k \in missing : \A m \in missing : k <= m } }
        known == IF icm_cache = <<>> THEN {} ELSE {Head(icm_cache)}
    IN  fresh \cup known \cup {MissingProfile}

cacheOnly == <<engineVars, hostVars, detectorVars, brand_model_scene_map, disk, catalogVars, batchVars, stop_called, calls,
               existedAtStart, existedAtCheck, correction, progress_calls, status_calls,
               metrics_calculated>>

\* os.path.exists(icm_path) and the unlocked test `icm_path in self.icm_cache`.
\* Calls start until the cache has evicted MaxEvictions entries, and a call in
\* flight sees at most MaxOvertake other calls start.
LoadBegin(t, icm_path) ==
    /\ loaders[t].pc \in {"idle", "raised"}
    /\ Len(evictions) < MaxEvictions
    /\ \A u \in 1..NumLoaders : loaders[u].overtaken < MaxOvertake
    /\ loaders' = [u \in 1..NumLoaders |->
          IF u # t
          THEN IF loaders[u].pc \in {"idle", "raised"} THEN loaders[u]
               ELSE [loaders[u] EXCEPT !.overtaken = @ + 1]
          ELSE IF icm_path \notin disk THEN Idle
          ELSE IF icm_path \in Range(icm_cache)
               THEN [pc |-> "hit", path |-> icm_path, overtaken |-> 0]
               ELSE [pc |-> "open", path |-> icm_path, overtaken |-> 0]]
    /\ UNCHANGED <<cacheOnly, icm_cache, evictions>>

\* return self.icm_cache[icm_path], outside the try: the handle, or the
\* KeyError of an entry that a scan or an eviction removed since the test
LoadHit(t) ==
    /\ loaders[t].pc = "hit"
    /\ loaders' = [loaders EXCEPT ![t] =
          IF loaders[t].path \in Range(icm_cache) THEN Idle
          ELSE [pc |-> "raised", path |-> loaders[t].path, overtaken |-> 0]]
    /\ UNCHANGED <<cacheOnly, icm_cache, evictions>>

\* ImageCms.ImageCmsProfile(icm_path): a handle, or an exception and None
LoadOpen(t) ==
    /\ loaders[t].pc = "open"
    /\ \/ loaders' = [loaders EXCEPT ![t].pc = "insert"]
       \/ loaders' = [loaders EXCEPT ![t] = Idle]
    /\ UNCHANGED <<cacheOnly, icm_cache, evictions>>

\* with self._lock: evict the oldest entry when over the limit, then insert
LoadInsert(t) ==
    /\ loaders[t].pc = "insert"
    /\ icm_cache' = CacheInsert(icm_cache, loaders[t].path)
    /\ evictions' = evictions \o CacheEvicted(icm_cache)
    /\ loaders' = [loaders EXCEPT ![t] = Idle]
    /\ UNCHANGED cacheOnly

\* scan_icm_files over an unchanged directory: under the lock it clears and
\* rebuilds the catalog and clears the profile cache.  Scans are issued
\* while the cache holds at most MaxScanLen entries.
ManagerScan ==
    /\ Len(icm_cache) <= MaxScanLen
    /\ icm_cache' = <<>>
    /\ UNCHANGED <<cacheOnly, loaders, evictions>>

InitCache ==
    /\ input_files = <<InputUniverse[1]>>
    /\ config \in { c \in BatchConfigs : c.enable_icm_correction /\ c.strict_icm }
    /\ icm_manager = TRUE
    /\ camera_detector = TRUE
    /\ brand_model_scene_map = {}
    /\ brands = {}
    /\ models = {}
    /\ scenes = {}
    /\ scanned = TRUE
    /\ lock = {}
    /\ scan = IdleScan
    /\ readers = IdleReaders
    /\ resolved = NoneResolved
    /\ disk = OnDisk
    /\ progress_callback = FALSE
    /\ status_callback = FALSE
    /\ max_workers = 0
    /\ cpu_count = 1
    /\ total_memory = HostMemory
    /\ max_threads = detect_optimal_threads(config.max_threads, cpu_count, total_memory)
    /\ outExists = {}
    /\ is_converting = FALSE
    /\ metrics = NewMetrics
    /\ icm_cache = <<>>
    /\ pc = "idle"
    /\ results = <<>>
    /\ returned = None
    /\ completed_count = 0
    /\ cur = 0
    /\ collected = {}
    /\ cancel_cursor = 0
    /\ jobs = [i \in {1} |->
                 [pc |-> "pending", camera |-> NoCamera, icm_file |-> EmptyPath, result |-> None]]
    /\ loaders = IdleLoaders
    /\ stop_called = FALSE
    /\ calls = [i \in {1} |-> {}]
    /\ existedAtStart = [i \in {1} |-> FALSE]
    /\ existedAtCheck = [i \in {1} |-> FALSE]
    /\ correction = [i \in {1} |-> "none"]
    /\ progress_calls = <<>>
    /\ status_calls = <<>>
    /\ evictions = <<>>
    /\ metrics_calculated = FALSE
    /\ camera_info = NoCameraInfo
    /\ detected = <<>>
    /\ input_dir = [state |-> "missing", files |-> {}]
    /\ scan_result = None
    /\ index_lists = None
    /\ summary = None

NextCache ==
    \/ \E t \in 1..NumLoaders : \E icm_path \in Requested : LoadBegin(t, icm_path)
    \/ \E t \in 1..NumLoaders : LoadHit(t)
    \/ \E t \in 1..NumLoaders : LoadOpen(t)
    \/ \E t \in 1..NumLoaders : LoadInsert(t)
    \/ ManagerScan

SpecCache == InitCache /\ [][NextCache]_vars

\* ------------------------------------------------------------------------
\* ICMManager: scan_icm_files next to the read operations of other threads
\* ------------------------------------------------------------------------
\* os.listdir(self.icm_directory), in the order the directory gives
ListedFiles == <<CanonGenericFile, CanonVividFile, NikonGenericFile>>

\* The entries of the map in insertion order, one per parsed file
ParsedInOrder ==
    LET parsed == SelectSeq(ListedFiles, LAMBDA f : parse_icm_filename(f) # None)
    IN  [k \in 1..Len(parsed) |->
            <<parse_icm_filename(parsed[k]).brand, parse_icm_filename(parsed[k]).model,
              parse_icm_filename(parsed[k]).scene>>]

\* The catalog every scan of the directory ends with
FullMap == ScanResult(Range(ListedFiles))

Readers == 1..NumReaders
\* The thread that calls refresh_icm_database
Refresher == 0

\* The calls the reader threads make
ReadRequests ==
    { [op |-> "get_available_brands", arg |-> <<EmptyStr, EmptyStr, EmptyStr>>],
      [op |-> "get_available_models", arg |-> <<Canon, EmptyStr, EmptyStr>>],
      [op |-> "get_available_scenes", arg |-> <<Canon, EOSR5, EmptyStr>>],
      [op |-> "load_icc_profile", arg |-> <<Canon, EOSR5, Generic>>] }
    \cup { [op |-> "get_icm_file", arg |-> q] : q \in QueryTriples }

\* What a read operation returns when it runs alone on the catalog `map`
Answer(map, op, arg) ==
    IF op = "get_available_brands" THEN ListOf(BrandsOf(map))
    ELSE IF op = "get_available_models"
         THEN ListOf({ t[2] : t \in { u \in map : u[1] = arg[1] } })
    ELSE IF op = "get_available_scenes"
         THEN ListOf({ t[3] : t \in { u \in map : u[1] = arg[1] /\ u[2] = arg[2] } })
    ELSE IF arg \in map THEN ResolvePath(arg[1], arg[2], arg[3])
    ELSE None

InFlight(r) == r.pc \in {"read", "model", "scene", "resolve"}

catalogOnly == <<engineVars, hostVars, detectorVars, disk, batchVars, loaders, historyVars>>

\* A read operation is called.  `if not self._scanned` sends the caller into
\* scan_icm_files first; load_icc_profile has no such test.  base is the
\* catalog the last finished scan left.
ReadBegin(t, req) ==
    /\ readers[t].pc \in {"idle", "done"}
    /\ readers' = [readers EXCEPT ![t] =
          [pc |-> IF scanned \/ req.op = "load_icc_profile" THEN "read" ELSE "implicit",
           op |-> req.op, arg |-> req.arg,
           base |-> IF scanned THEN FullMap ELSE {},
           result |-> None, tainted |-> lock # {}]]
    /\ UNCHANGED <<catalogOnly, brand_model_scene_map, icm_cache, scanned, brands, models,
                   scenes, lock, scan, resolved>>

\* with self._lock, entered by the refresher or by a reader's implicit scan
ScanAcquire(o) ==
    /\ lock = {}
    /\ IF o = Refresher THEN TRUE ELSE readers[o].pc = "implicit"
    /\ lock' = {o}
    /\ scan' = [pc |-> "clear_map", k |-> 0]
    /\ readers' = [t \in Readers |->
          IF t = o THEN [readers[t] EXCEPT !.pc = "scanning"]
          ELSE IF InFlight(readers[t]) THEN [readers[t] EXCEPT !.tainted = TRUE]
          ELSE readers[t]]
    /\ resolved' = [q \in DOMAIN resolved |-> <<>>]
    /\ UNCHANGED <<catalogOnly, brand_model_scene_map, icm_cache, scanned, brands, models,
                   scenes>>

\* self.brand_model_scene_map.clear()
ScanClearMap ==
    /\ scan.pc = "clear_map"
    /\ brand_model_scene_map' = {}
    /\ scan' = [scan EXCEPT !.pc = "clear_lists"]
    /\ UNCHANGED <<catalogOnly, icm_cache, scanned, brands, models, scenes, lock, readers,
                   resolved>>

\* self.brands.clear(), self.models.clear(), self.scenes.clear(),
\* self.icm_cache.clear()
ScanClearLists ==
    /\ scan.pc = "clear_lists"
    /\ brands' = {}
    /\ models' = {}
    /\ scenes' = {}
    /\ icm_cache' = <<>>
    /\ scan' = [pc |-> "listdir", k |-> 1]
    /\ UNCHANGED <<catalogOnly, brand_model_scene_map, scanned, lock, readers, resolved>>

\* One round of the listdir loop: parse the file name, add its entry
ScanAddFile ==
    /\ scan.pc = "listdir"
    /\ scan.k <= Len(ListedFiles)
    /\ LET parsed == parse_icm_filename(ListedFiles[scan.k])
       IN  brand_model_scene_map' =
              IF parsed = None THEN brand_model_scene_map
              ELSE brand_model_scene_map \cup {<<parsed.brand, parsed.model, parsed.scene>>}
    /\ scan' = [scan EXCEPT !.k = @ + 1]
    /\ UNCHANGED <<catalogOnly, icm_cache, scanned, brands, models, scenes, lock, readers,
                   resolved>>

\* self.brands = sorted(self.brand_model_scene_map.keys())
ScanBuildBrands ==
    /\ scan.pc = "listdir"
    /\ scan.k > Len(ListedFiles)
    /\ brands' = BrandsOf(brand_model_scene_map)
    /\ scan' = [pc |-> "index", k |-> 1]
    /\ UNCHANGED <<catalogOnly, brand_model_scene_map, icm_cache, scanned, models, scenes,
                   lock, readers, resolved>>

\* One round of the index loops: the model list of the entry's brand, and
\* the entry's scene appended to the scene list of its (brand, model)
ScanIndex ==
    /\ scan.pc = "index"
    /\ scan.k <= Len(ParsedInOrder)
    /\ LET entry == ParsedInOrder[scan.k]
       IN  /\ models' = models \cup { <<t[1], t[2]>> :
                                        t \in { u \in brand_model_scene_map : u[1] = entry[1] } }
           /\ scenes' = scenes \cup {entry}
    /\ scan' = [scan EXCEPT !.k = @ + 1]
    /\ UNCHANGED <<catalogOnly, brand_model_scene_map, icm_cache, scanned, brands, lock,
                   readers, resolved>>

\* self._scanned = True, the lock is released, scan_icm_files returns
ScanEnd ==
    /\ scan.pc = "index"
    /\ scan.k > Len(ParsedInOrder)
    /\ scanned' = TRUE
    /\ lock' = {}
    /\ scan' = IdleScan
    /\ readers' = [t \in Readers |->
          IF t \in lock
          THEN [readers[t] EXCEPT !.pc = "read", !.base = brand_model_scene_map,
                                  !.tainted = FALSE]
          ELSE readers[t]]
    /\ UNCHANGED <<catalogOnly, brand_model_scene_map, icm_cache, brands, models, scenes,
                   resolved>>

\* The call of reader t returns `result` (or raises it)
Return(t, result) ==
    /\ readers' = [readers EXCEPT ![t].pc = "done", ![t].result = result]
    /\ LET call == [result |-> result, cache |-> icm_cache]
       IN  resolved' = IF /\ readers[t].op = "get_icm_file"
                          /\ readers[t].arg \in DOMAIN resolved
                          /\ ~readers[t].tainted
                       THEN [resolved EXCEPT ![readers[t].arg] =
                                IF @ = <<>> THEN <<call>> ELSE <<@[1], call>>]
                       ELSE resolved

\* get_available_brands, get_available_models, get_available_scenes: a copy
\* of the list as it is now
ReadList(t) ==
    /\ readers[t].pc = "read"
    /\ readers[t].op \in {"get_available_brands", "get_available_models",
                          "get_available_scenes"}
    /\ LET arg == readers[t].arg
       IN  Return(t, IF readers[t].op = "get_available_brands" THEN ListOf(brands)
                     ELSE IF readers[t].op = "get_available_models"
                          THEN ListOf({ p[2] : p \in { u \in models : u[1] = arg[1] } })
                     ELSE ListOf({ s[3] : s \in { u \in scenes : u[1] = arg[1]
                                                              /\ u[2] = arg[2] } }))
    /\ UNCHANGED <<catalogOnly, brand_model_scene_map, icm_cache, scanned, brands, models,
                   scenes, lock, scan>>

\* load_icc_profile of the file of the reader's triple, while no scan holds
\* the lock
ReadLoad(t) ==
    /\ readers[t].pc = "read"
    /\ readers[t].op = "load_icc_profile"
    /\ lock = {}
    /\ \E openOk \in BOOLEAN :
          LET arg == readers[t].arg
              icm_path == PathJoin(IcmDirectory, arg[1] \o arg[2] \o Dash \o arg[3] \o DotIcm)
              loaded == load_icc_profile(icm_path, openOk)
          IN  /\ icm_cache' = loaded.cache
              /\ Return(t, IF loaded.ok THEN ProfileHandle ELSE None)
    /\ UNCHANGED <<catalogOnly, brand_model_scene_map, scanned, brands, models, scenes,
                   lock, scan>>

\* get_icm_file: if brand not in self.brand_model_scene_map
GetBrand(t) ==
    /\ readers[t].pc = "read"
    /\ readers[t].op = "get_icm_file"
    /\ IF readers[t].arg[1] \in BrandsOf(brand_model_scene_map)
       THEN readers' = [readers EXCEPT ![t].pc = "model"] /\ UNCHANGED resolved
       ELSE Return(t, None)
    /\ UNCHANGED <<catalogOnly, brand_model_scene_map, icm_cache, scanned, brands, models,
                   scenes, lock, scan>>

\* get_icm_file: if model not in self.brand_model_scene_map[brand]
GetModel(t) ==
    /\ readers[t].pc = "model"
    /\ LET arg == readers[t].arg
       IN  IF arg[1] \notin BrandsOf(brand_model_scene_map) THEN Return(t, KeyError)
           ELSE IF <<arg[1], arg[2]>> \notin ModelsOf(brand_model_scene_map)
                THEN Return(t, None)
           ELSE readers' = [readers EXCEPT ![t].pc = "scene"] /\ UNCHANGED resolved
    /\ UNCHANGED <<catalogOnly, brand_model_scene_map, icm_cache, scanned, brands, models,
                   scenes, lock, scan>>

\* get_icm_file: if scene not in self.brand_model_scene_map[brand][model]
GetScene(t) ==
    /\ readers[t].pc = "scene"
    /\ LET arg == readers[t].arg
       IN  IF <<arg[1], arg[2]>> \notin ModelsOf(brand_model_scene_map)
           THEN Return(t, KeyError)
           ELSE IF arg \notin brand_model_scene_map THEN Return(t, None)
           ELSE readers' = [readers EXCEPT ![t].pc = "resolve"] /\ UNCHANGED resolved
    /\ UNCHANGED <<catalogOnly, brand_model_scene_map, icm_cache, scanned, brands, models,
                   scenes, lock, scan>>

\* get_icm_file: the file name, its variants and os.path.exists
GetResolve(t) ==
    /\ readers[t].pc = "resolve"
    /\ Return(t, ResolvePath(readers[t].arg[1], readers[t].arg[2], readers[t].arg[3]))
    /\ UNCHANGED <<catalogOnly, brand_model_scene_map, icm_cache, scanned, brands, models,
                   scenes, lock, scan>>

\* A manager constructed over the directory (scanned), or constructed before
\* the directory existed (not scanned, everything empty)
InitCatalog ==
    /\ input_files = <<InputUniverse[1]>>
    /\ config \in { c \in BatchConfigs : c.enable_icm_correction /\ c.strict_icm }
    /\ icm_manager = TRUE
    /\ camera_detector = TRUE
    /\ disk = ProfilePaths(Range(ListedFiles))
    /\ scanned \in BOOLEAN
    /\ brand_model_scene_map = IF scanned THEN FullMap ELSE {}
    /\ brands = BrandsOf(brand_model_scene_map)
    /\ models = ModelsOf(brand_model_scene_map)
    /\ scenes = brand_model_scene_map
    /\ lock = {}
    /\ scan = IdleScan
    /\ readers = IdleReaders
    /\ resolved \in { [q \in {observed} |-> <<>>] : observed \in QueryTriples }
    /\ progress_callback = FALSE
    /\ status_callback = FALSE
    /\ max_workers = 0
    /\ cpu_count = 1
    /\ total_memory = HostMemory
    /\ max_threads = detect_optimal_threads(config.max_threads, cpu_count, total_memory)
    /\ outExists = {}
    /\ is_converting = FALSE
    /\ metrics = NewMetrics
    /\ icm_cache = <<>>
    /\ pc = "idle"
    /\ results = <<>>
    /\ returned = None
    /\ completed_count = 0
    /\ cur = 0
    /\ collected = {}
    /\ cancel_cursor = 0
    /\ jobs = [i \in {1} |->
                 [pc |-> "pending", camera |-> NoCamera, icm_file |-> EmptyPath, result |-> None]]
    /\ loaders = IdleLoaders
    /\ stop_called = FALSE
    /\ calls = [i \in {1} |-> {}]
    /\ existedAtStart = [i \in {1} |-> FALSE]
    /\ existedAtCheck = [i \in {1} |-> FALSE]
    /\ correction = [i \in {1} |-> "none"]
    /\ progress_calls = <<>>
    /\ status_calls = <<>>
    /\ evictions = <<>>
    /\ metrics_calculated = FALSE
    /\ camera_info = NoCameraInfo
    /\ detected = <<>>
    /\ input_dir = [state |-> "missing", files |-> {}]
    /\ scan_result = None
    /\ index_lists = None
    /\ summary = None

NextCatalog ==
    \/ \E t \in Readers : \E req \in ReadRequests : ReadBegin(t, req)
    \/ \E o \in Readers \cup {Refresher} : ScanAcquire(o)
    \/ ScanClearMap
    \/ ScanClearLists
    \/ ScanAddFile
    \/ ScanBuildBrands
    \/ ScanIndex
    \/ ScanEnd
    \/ \E t \in Readers : ReadList(t)
    \/ \E t \in Readers : ReadLoad(t)
    \/ \E t \in Readers : GetBrand(t)
    \/ \E t \in Readers : GetModel(t)
    \/ \E t \in Readers : GetScene(t)
    \/ \E t \in Readers : GetResolve(t)

SpecCatalog == InitCatalog /\ [][NextCatalog]_vars

\* ------------------------------------------------------------------------
\* EnhancedRAWConverter.__init__ on hosts of several sizes
\* ------------------------------------------------------------------------
\* The configs of the constructor scenario: the defaults with a thread cap
CappedConfigs ==
    { [c EXCEPT !.max_threads = cap] :
        c \in { b \in BatchConfigs : b.enable_icm_correction /\ b.strict_icm },
        cap \in 0..MaxCap }

\* Before the constructor has run
InitThreads ==
    /\ input_files = <<InputUniverse[1]>>
    /\ config \in CappedConfigs
    /\ cpu_count \in 1..MaxCores
    /\ total_memory \in 1..MaxMemory
    /\ max_threads = 0
    /\ icm_manager = FALSE
    /\ camera_detector = FALSE
    /\ disk = ProfilePaths(DefaultCatalog.files)
    /\ scanned = TRUE
    /\ brand_model_scene_map = DefaultCatalog.map
    /\ brands = BrandsOf(brand_model_scene_map)
    /\ models = ModelsOf(brand_model_scene_map)
    /\ scenes = brand_model_scene_map
    /\ lock = {}
    /\ scan = IdleScan
    /\ readers = IdleReaders
    /\ resolved = NoneResolved
    /\ progress_callback = FALSE
    /\ status_callback = FALSE
    /\ max_workers = 0
    /\ outExists = {}
    /\ is_converting = FALSE
    /\ metrics = NewMetrics
    /\ icm_cache = <<>>
    /\ pc = "new"
    /\ results = <<>>
    /\ returned = None
    /\ completed_count = 0
    /\ cur = 0
    /\ collected = {}
    /\ cancel_cursor = 0
    /\ jobs = [i \in {1} |->
                 [pc |-> "pending", camera |-> NoCamera, icm_file |-> EmptyPath, result |-> None]]
    /\ loaders = IdleLoaders
    /\ stop_called = FALSE
    /\ calls = [i \in {1} |-> {}]
    /\ existedAtStart = [i \in {1} |-> FALSE]
    /\ existedAtCheck = [i \in {1} |-> FALSE]
    /\ correction = [i \in {1} |-> "none"]
    /\ progress_calls = <<>>
    /\ status_calls = <<>>
    /\ evictions = <<>>
    /\ metrics_calculated = FALSE
    /\ camera_info = NoCameraInfo
    /\ detected = <<>>
    /\ input_dir = [state |-> "missing", files |-> {}]
    /\ scan_result = None
    /\ index_lists = None
    /\ summary = None

\* EnhancedRAWConverter.__init__
Construct ==
    /\ pc = "new"
    /\ pc' = "idle"
    /\ max_threads' = detect_optimal_threads(config.max_threads, cpu_count, total_memory)
    /\ icm_manager' = config.enable_icm_correction
    /\ camera_detector' = config.enable_icm_correction
    /\ UNCHANGED <<config, progress_callback, status_callback, is_converting, metrics,
                   hostVars, managerVars, catalogVars, detectorVars, loaders, input_files, max_workers,
                   outExists, results, returned, completed_count, cur, collected,
                   cancel_cursor, jobs, historyVars>>

SpecThreads == InitThreads /\ [][Construct]_vars

\* ------------------------------------------------------------------------
\* CameraDetector: normalisation of the make and model of the metadata
\* ------------------------------------------------------------------------
Unknown == <<"U", "n", "k", "n", "o", "w", "n">>

\* self.brand_mapping, in the order of the dict
brand_mapping ==
    << <<<<"C", "a", "n", "o", "n">>, Canon>>,
       <<<<"N", "I", "K", "O", "N">>, Nikon>>,
       <<<<"N", "I", "K", "O", "N", " ", "C", "O", "R", "P", "O", "R", "A", "T", "I", "O", "N">>, Nikon>>,
       <<<<"S", "o", "n", "y">>, Sony>>,
       <<<<"S", "O", "N", "Y">>, Sony>>,
       <<<<"F", "u", "j", "i", "f", "i", "l", "m">>, Fujifilm>>,
       <<<<"F", "U", "J", "I", "F", "I", "L", "M">>, Fujifilm>>,
       <<<<"O", "l", "y", "m", "p", "u", "s">>, Olympus>>,
       <<<<"O", "L", "Y", "M", "P", "U", "S", " ", "I", "M", "A", "G", "I", "N", "G", " ", "C", "O", "R", "P", ".">>, Olympus>>,
       <<<<"P", "a", "n", "a", "s", "o", "n", "i", "c">>, Panasonic>>,
       <<<<"P", "a", "n", "a", "s", "o", "n", "i", "c", " ", "C", "o", "r", "p", "o", "r", "a", "t", "i", "o", "n">>, Panasonic>>,
       <<<<"L", "E", "I", "C", "A">>, Leica>>,
       <<<<"L", "e", "i", "c", "a">>, Leica>>,
       <<<<"L", "e", "i", "c", "a", " ", "C", "a", "m", "e", "r", "a", " ", "A", "G">>, Leica>>,
       <<<<"P", "e", "n", "t", "a", "x">>, Pentax>>,
       <<<<"P", "E", "N", "T", "A", "X">>, Pentax>>,
       <<<<"R", "I", "C", "O", "H", " ", "I", "M", "A", "G", "I", "N", "G", " ", "C", "O", "M", "P", "A", "N", "Y", ",", " ", "L", "T", "D", ".">>, Pentax>>,
       <<<<"S", "a", "m", "s", "u", "n", "g">>, Samsung>>,
       <<<<"S", "A", "M", "S", "U", "N", "G">>, Samsung>>,
       <<<<"A", "p", "p", "l", "e">>, Apple>>,
       <<<<"H", "a", "s", "s", "e", "l", "b", "l", "a", "d">>, <<"H", "a", "s", "s", "e", "l", "b", "l", "a", "d">>>>,
       <<<<"P", "h", "a", "s", "e", " ", "O", "n", "e">>, <<"P", "h", "a", "s", "e", "O", "n", "e">>>>,
       <<<<"M", "a", "m", "i", "y", "a">>, <<"M", "a", "m", "i", "y", "a">>>>,
       <<<<"L", "e", "a", "f">>, <<"L", "e", "a", "f">>>>,
       <<<<"C", "o", "n", "t", "a", "x">>, <<"C", "o", "n", "t", "a", "x">>>>,
       <<<<"K", "o", "d", "a", "k">>, <<"K", "o", "d", "a", "k">>>> >>

\* The alternatives of the first rule of self.model_cleanup_rules
CompanyNames ==
    << Canon, <<"N", "I", "K", "O", "N">>, <<"S", "O", "N", "Y">>, Fujifilm, <<"F", "U", "J", "I", "F", "I", "L", "M">>, Olympus, Panasonic, Leica, Pentax, Samsung, Apple >>

\* The alternatives of the second rule, before Phase\s+One
ModelPrefixes ==
    << <<"E", "O", "S">>, <<"D", "S", "C">>, <<"I", "L", "C", "E">>, <<"D", "M", "C">>, <<"G", "R">>, <<"K", "-">>, <<"X", "-", "T">>, <<"G", "F", "X">>, <<"H", "a", "s", "s", "e", "l", "b", "l", "a", "d">> >>

\* self.brand_prefix_patterns, in the order of the dict: per brand the
\* prefixes that match as they are, and those that need digits after them
brand_prefix_patterns ==
    << [brand |-> Canon,
        plain |-> {<<"E", "O", "S">>, <<"P", "o", "w", "e", "r", "S", "h", "o", "t">>, <<"I", "X", "U", "S">>},
        digits |-> {}],
       [brand |-> Nikon,
        plain |-> {<<"C", "O", "O", "L", "P", "I", "X">>},
        digits |-> {<<"D">>, <<"Z">>}],
       [brand |-> Sony,
        plain |-> {<<"I", "L", "C", "E", "-">>, <<"I", "L", "C", "A", "-">>, <<"D", "S", "C">>, <<"α">>},
        digits |-> {}],
       [brand |-> Fujifilm,
        plain |-> {<<"X", "-">>, <<"G", "F", "X">>, <<"F", "i", "n", "e", "P", "i", "x">>},
        digits |-> {}],
       [brand |-> Olympus,
        plain |-> {<<"E", "-">>, <<"S", "T", "Y", "L", "U", "S">>, <<"T", "O", "U", "G", "H">>},
        digits |-> {}],
       [brand |-> Panasonic,
        plain |-> {<<"D", "M", "C", "-">>, <<"L", "U", "M", "I", "X">>},
        digits |-> {}],
       [brand |-> Leica,
        plain |-> {<<"C", "L">>},
        digits |-> {<<"M">>, <<"S", "L">>, <<"Q">>}],
       [brand |-> Pentax,
        plain |-> {<<"K", "P">>, <<"6", "4", "5", "D">>, <<"6", "4", "5", "Z">>},
        digits |-> {<<"K", "-">>}],
       [brand |-> Samsung,
        plain |-> {<<"G", "a", "l", "a", "x", "y">>},
        digits |-> {<<"N", "X">>}],
       [brand |-> Apple,
        plain |-> {<<"i", "P", "h", "o", "n", "e">>, <<"i", "P", "a", "d">>},
        digits |-> {}] >>


\* Whitespace is the space character in what follows; a word character is a
\* letter, a digit or the underscore
LetterSet == {UpperLetters[i] : i \in 1..26} \cup {LowerLetters[i] : i \in 1..26}
WordSet == LetterSet \cup Digits \cup {"_"}

Drop(s, n) == SubSeq(s, n + 1, Len(s))
First(S) == CHOOSE i \in S : \A j \in S : i <= j

\* The number of leading characters of s that are in class
RECURSIVE Leading(_, _)
Leading(s, class) ==
    IF s = <<>> THEN 0
    ELSE IF Head(s) \in class THEN 1 + Leading(Tail(s), class) ELSE 0

\* A match of the literal p at the start of s under re.IGNORECASE
StartsWithCI(s, p) == Len(s) >= Len(p) /\ ToLower(SubSeq(s, 1, Len(p))) = ToLower(p)

\* sub in s
Contains(s, sub) ==
    \E i \in 0..(Len(s) - Len(sub)) : SubSeq(s, i + 1, i + Len(sub)) = sub

\* CameraDetector._normalize_brand
normalize_brand(make) ==
    IF make = <<>> THEN Unknown
    ELSE LET make_clean == Strip(make)
             make_lower == ToLower(make_clean)
             direct == {i \in DOMAIN brand_mapping : brand_mapping[i][1] = make_clean}
             fuzzy == {i \in DOMAIN brand_mapping :
                          \/ Contains(make_lower, ToLower(brand_mapping[i][1]))
                          \/ Contains(ToLower(brand_mapping[i][1]), make_lower)}
         IN  IF direct # {} THEN brand_mapping[First(direct)][2]
             ELSE IF fuzzy # {} THEN brand_mapping[First(fuzzy)][2]
             ELSE Unknown

\* re.search of the patterns of one brand in the model
MatchesBrandPrefix(entry, s) ==
    \/ \E p \in entry.plain : StartsWithCI(s, p)
    \/ \E p \in entry.digits :
          /\ StartsWithCI(s, p)
          /\ Leading(Drop(s, Len(p)), Digits) >= 1

\* CameraDetector._infer_brand_from_model
infer_brand_from_model(model) ==
    IF model = <<>> THEN Unknown
    ELSE LET model_clean == Strip(model)
             hits == {i \in DOMAIN brand_prefix_patterns :
                         MatchesBrandPrefix(brand_prefix_patterns[i], model_clean)}
         IN  IF hits # {} THEN brand_prefix_patterns[First(hits)].brand ELSE Unknown

\* Rule 1, \b(Canon|NIKON|...)\s+ -> '': boundary says that the character
\* before s is not a word character
RECURSIVE RemoveCompanyNames(_, _)
RemoveCompanyNames(s, boundary) ==
    IF s = <<>> THEN <<>>
    ELSE LET hits == {i \in DOMAIN CompanyNames :
                         /\ boundary
                         /\ StartsWithCI(s, CompanyNames[i])
                         /\ Leading(Drop(s, Len(CompanyNames[i])), {" "}) >= 1}
         IN  IF hits # {}
             THEN RemoveCompanyNames(StripLeft(Drop(s, Len(CompanyNames[First(hits)]))), TRUE)
             ELSE <<Head(s)>> \o RemoveCompanyNames(Tail(s), Head(s) \notin WordSet)

\* Rule 2, ^(EOS|DSC|...|Phase\s+One)\s* -> ''
RemoveModelPrefix(s) ==
    LET Phase == <<"P", "h", "a", "s", "e">>
        One == <<"O", "n", "e">>
        hits == {i \in DOMAIN ModelPrefixes : StartsWithCI(s, ModelPrefixes[i])}
        gap == Leading(Drop(s, Len(Phase)), {" "})
        phaseOne == /\ StartsWithCI(s, Phase)
                    /\ gap >= 1
                    /\ StartsWithCI(Drop(s, Len(Phase) + gap), One)
    IN  IF hits # {} THEN StripLeft(Drop(s, Len(ModelPrefixes[First(hits)])))
        ELSE IF phaseOne THEN StripLeft(Drop(s, Len(Phase) + gap + Len(One)))
        ELSE s

\* Rule 3, \s+ -> ' '
RECURSIVE CollapseSpaces(_)
CollapseSpaces(s) ==
    IF s = <<>> THEN <<>>
    ELSE IF Head(s) = " " THEN <<" ">> \o CollapseSpaces(StripLeft(s))
    ELSE <<Head(s)>> \o CollapseSpaces(Tail(s))

\* Rule 5, \s*-\s* -> ' '
RECURSIVE DashToSpace(_)
DashToSpace(s) ==
    IF s = <<>> THEN <<>>
    ELSE LET gap == Leading(s, {" "})
         IN  IF gap < Len(s) /\ s[gap + 1] = "-"
             THEN <<" ">> \o DashToSpace(StripLeft(Drop(s, gap + 1)))
             ELSE <<Head(s)>> \o DashToSpace(Tail(s))

\* self.model_cleanup_rules, applied in order (rule 4 is [()] -> '')
model_cleanup_rules(s) ==
    DashToSpace(RemoveChar(RemoveChar(
        CollapseSpaces(RemoveModelPrefix(RemoveCompanyNames(s, TRUE))), "("), ")"))

\* re.sub(word\s*, '', s, IGNORECASE)
RECURSIVE RemoveWord(_, _)
RemoveWord(s, word) ==
    IF s = <<>> THEN <<>>
    ELSE IF StartsWithCI(s, word) THEN RemoveWord(StripLeft(Drop(s, Len(word))), word)
    ELSE <<Head(s)>> \o RemoveWord(Tail(s), word)

\* re.sub(^prefix seps+, replacement, s, IGNORECASE)
RewritePrefix(s, prefix, seps, replacement) ==
    LET gap == Leading(Drop(s, Len(prefix)), seps)
    IN  IF StartsWithCI(s, prefix) /\ gap >= 1
        THEN replacement \o Drop(s, Len(prefix) + gap)
        ELSE s

\* re.sub(^prefix seps* (next+), replacement \1, s, IGNORECASE)
RewritePrefixBefore(s, prefix, seps, next, replacement) ==
    LET gap == Leading(Drop(s, Len(prefix)), seps)
    IN  IF StartsWithCI(s, prefix) /\ Leading(Drop(s, Len(prefix) + gap), next) >= 1
        THEN replacement \o Drop(s, Len(prefix) + gap)
        ELSE s

\* re.sub(Rebel\s+([A-Z]\d+), EOS \1, s, IGNORECASE)
RECURSIVE RebelToEos(_)
RebelToEos(s) ==
    IF s = <<>> THEN <<>>
    ELSE LET Rebel == <<"R", "e", "b", "e", "l">>
             EOS == <<"E", "O", "S">>
             gap == Leading(Drop(s, Len(Rebel)), {" "})
             group == Drop(s, Len(Rebel) + gap)
             digits == Leading(Drop(group, 1), Digits)
         IN  IF /\ StartsWithCI(s, Rebel)
                /\ gap >= 1
                /\ Leading(group, LetterSet) >= 1
                /\ digits >= 1
             THEN EOS \o <<" ">> \o SubSeq(group, 1, 1 + digits)
                      \o RebelToEos(Drop(group, 1 + digits))
             ELSE <<Head(s)>> \o RebelToEos(Tail(s))

\* CameraDetector._brand_specific_model_cleanup
brand_specific_model_cleanup(model, brand) ==
    LET EOS == <<"E", "O", "S">>
        ILCE == <<"I", "L", "C", "E">>
        Alpha == <<"α">>
        GFX == <<"G", "F", "X">>
        DMC == <<"D", "M", "C">>
    IN
    IF brand = Canon
    THEN RebelToEos(RewritePrefix(RemoveWord(model, Canon), EOS, {" "}, EOS))
    ELSE IF brand = Nikon
    THEN RewritePrefixBefore(
             RewritePrefixBefore(RemoveWord(model, Nikon), <<"D">>, {}, Digits, <<"D">>),
             <<"Z">>, {" "}, Digits, <<"Z">>)
    ELSE IF brand = Sony
    THEN RewritePrefixBefore(
             RewritePrefixBefore(RemoveWord(model, Sony), ILCE, {"-", " "}, Digits, Alpha),
             Alpha, {" "}, Digits, Alpha)
    ELSE IF brand = Fujifilm
    THEN RewritePrefixBefore(
             RewritePrefixBefore(RemoveWord(model, Fujifilm), <<"X">>, {"-", " "}, WordSet,
                                 <<"X", "-">>),
             GFX, {" "}, WordSet, GFX)
    ELSE IF brand = Olympus
    THEN RemoveWord(model, Olympus)
    ELSE IF brand = Panasonic
    THEN RewritePrefixBefore(RemoveWord(model, Panasonic), DMC, {"-", " "}, WordSet,
                             DMC \o <<"-">>)
    ELSE model

\* CameraDetector._normalize_model
normalize_model(model, brand) ==
    IF model = <<>> THEN Unknown
    ELSE LET model_clean ==
                 Strip(CollapseSpaces(
                     brand_specific_model_cleanup(model_cleanup_rules(Strip(model)), brand)))
         IN  IF model_clean = <<>> THEN Unknown ELSE model_clean

\* CameraDetector.normalize_camera_model
normalize_camera_model(make, model) ==
    LET named == normalize_brand(make)
        brand == IF named = Unknown THEN infer_brand_from_model(model) ELSE named
    IN  [brand |-> brand, model |-> normalize_model(model, brand)]

\* The make and model fields of the metadata of a RAW file
CameraMakes ==
    { <<>>,
      <<"C", "a", "n", "o", "n">>,
      <<"N", "I", "K", "O", "N", " ", "C", "O", "R", "P", "O", "R", "A", "T", "I", "O", "N">>,
      <<"S", "O", "N", "Y">>,
      <<"F", "U", "J", "I", "F", "I", "L", "M">>,
      <<"P", "a", "n", "a", "s", "o", "n", "i", "c">>,
      <<"P", "h", "a", "s", "e", " ", "O", "n", "e">> }
CameraModels ==
    { <<>>,
      <<"C", "a", "n", "o", "n", " ", "E", "O", "S", " ", "5", "D", " ", "M", "a", "r", "k", " ", "I", "V">>,
      <<"C", "a", "n", "o", "n", " ", "E", "O", "S", " ", "R", "E", "B", "E", "L", " ", "T", "7">>,
      <<"N", "I", "K", "O", "N", " ", "D", "8", "5", "0">>,
      <<"N", "I", "K", "O", "N", " ", "Z", " ", "6">>,
      <<"I", "L", "C", "E", "-", "7", "M", "3">>,
      <<"X", "-", "T", "3">>,
      <<"X", "1", "0", "0", "V">>,
      <<"D", "M", "C", "-", "G", "H", "4">>,
      <<"I", "Q", "3", " ", "1", "0", "0", "M", "P">> }

\* A detector and the metadata of one file; nothing else runs
InitCamera ==
    /\ camera_info \in [make : CameraMakes, model : CameraModels]
    /\ detected = <<>>
    /\ input_dir = [state |-> "missing", files |-> {}]
    /\ scan_result = None
    /\ index_lists = None
    /\ summary = None
    /\ input_files = <<InputUniverse[1]>>
    /\ config = CHOOSE c \in BatchConfigs : c.enable_icm_correction /\ c.strict_icm
    /\ icm_manager = TRUE
    /\ camera_detector = TRUE
    /\ disk = ProfilePaths(DefaultCatalog.files)
    /\ scanned = TRUE
    /\ brand_model_scene_map = DefaultCatalog.map
    /\ brands = BrandsOf(brand_model_scene_map)
    /\ models = ModelsOf(brand_model_scene_map)
    /\ scenes = brand_model_scene_map
    /\ lock = {}
    /\ scan = IdleScan
    /\ readers = IdleReaders
    /\ resolved = NoneResolved
    /\ progress_callback = FALSE
    /\ status_callback = FALSE
    /\ max_workers = 0
    /\ cpu_count = 1
    /\ total_memory = HostMemory
    /\ max_threads = detect_optimal_threads(config.max_threads, cpu_count, total_memory)
    /\ outExists = {}
    /\ is_converting = FALSE
    /\ metrics = NewMetrics
    /\ icm_cache = <<>>
    /\ pc = "idle"
    /\ results = <<>>
    /\ returned = None
    /\ completed_count = 0
    /\ cur = 0
    /\ collected = {}
    /\ cancel_cursor = 0
    /\ jobs = [i \in {1} |->
                 [pc |-> "pending", camera |-> NoCamera, icm_file |-> EmptyPath, result |-> None]]
    /\ loaders = IdleLoaders
    /\ stop_called = FALSE
    /\ calls = [i \in {1} |-> {}]
    /\ existedAtStart = [i \in {1} |-> FALSE]
    /\ existedAtCheck = [i \in {1} |-> FALSE]
    /\ correction = [i \in {1} |-> "none"]
    /\ progress_calls = <<>>
    /\ status_calls = <<>>
    /\ evictions = <<>>
    /\ metrics_calculated = FALSE

\* normalize_camera_model(make, model), first on the metadata and then on the
\* (brand, model) pair it returned
NormalizeCamera ==
    /\ Len(detected) < MaxPasses
    /\ LET given == IF detected = <<>> THEN camera_info
                    ELSE [make |-> detected[Len(detected)].brand,
                          model |-> detected[Len(detected)].model]
       IN  detected' = Append(detected, normalize_camera_model(given.make, given.model))
    /\ UNCHANGED <<camera_info, engineVars, hostVars, managerVars, catalogVars, batchVars,
                   loaders, historyVars>>

SpecCamera == InitCamera /\ [][NormalizeCamera]_vars

\* ------------------------------------------------------------------------
\* ICMManager: one thread scanning a profile directory and resolving triples
\* ------------------------------------------------------------------------
\* File names a profile directory may hold: the plain ones, a model with a
\* '-', a model with a '_', a lower-case scene, and a file that is no profile
ProfileNames ==
    << CanonGenericFile, CanonVividFile, NikonGenericFile,
       <<"C", "a", "n", "o", "n", "E", "O", "S", "-", "R", "5", "-", "G", "e", "n", "e", "r", "i", "c", ".", "i", "c", "m">>,
       <<"C", "a", "n", "o", "n", "E", "O", "S", "_", "R", "5", "-", "P", "o", "r", "t", "r", "a", "i", "t", ".", "i", "c", "m">>,
       <<"C", "a", "n", "o", "n", "E", "O", "S", "R", "5", "-", "g", "e", "n", "e", "r", "i", "c", ".", "i", "c", "m">>,
       <<"C", "a", "n", "o", "n", "E", "O", "S", "R", "5", "-", "V", "i", "v", "i", "d", ".", "t", "x", "t">> >>

ProfileDirectories ==
    LET dir(S) == { ProfileNames[i] : i \in S }
    IN  { dir({}), dir({1}), dir({1, 2}), dir({1, 3}), dir({1, 2, 3}), dir({4}), dir({1, 4}),
          dir({5}), dir({6}), dir({1, 7}), dir({3, 4, 5}), dir({1, 6}) }

\* os.listdir(self.icm_directory)
ListDir == { p.name : p \in { x \in disk : x.dir = IcmDirectory } }

\* The triples get_icm_file is asked for: every triple a scan can list, and
\* triples no file is named for
LookupTriples ==
    UNION { ScanResult(d) : d \in ProfileDirectories }
    \cup { <<Canon, EOSR5, Vivid>>, <<Canon, EOSR5, ToLower(Generic)>>,
           <<Canon, <<"E", "O", "S", "-", "R", "5">>, Generic>>, <<Sony, EOSR5, Generic>> }

\* The characters of the names, in the order of their code points
CodePoints ==
    << " ", "-", ".", "0", "1", "2", "3", "4", "5", "6", "7", "8", "9",
       "A", "B", "C", "D", "E", "F", "G", "H", "I", "J", "K", "L", "M",
       "N", "O", "P", "Q", "R", "S", "T", "U", "V", "W", "X", "Y", "Z", "_",
       "a", "b", "c", "d", "e", "f", "g", "h", "i", "j", "k", "l", "m",
       "n", "o", "p", "q", "r", "s", "t", "u", "v", "w", "x", "y", "z" >>
CharRank(c) == CHOOSE k \in 1..Len(CodePoints) : CodePoints[k] = c

\* a < b of two str
RECURSIVE StrLess(_, _)
StrLess(a, b) ==
    IF b = <<>> THEN FALSE
    ELSE IF a = <<>> THEN TRUE
    ELSE IF a[1] = b[1] THEN StrLess(Tail(a), Tail(b))
    ELSE CharRank(a[1]) < CharRank(b[1])

\* The list left as it was built
sorted_names_Unsorted(s) == s

\* sorted(...) of a list of str
RECURSIVE sorted_names(_)
sorted_names(s) ==
    IF s = <<>> THEN <<>>
    ELSE LET k == CHOOSE k \in 1..Len(s) : \A j \in 1..Len(s) : ~StrLess(s[j], s[k])
         IN  <<s[k]>> \o sorted_names(SubSeq(s, 1, k - 1) \o SubSeq(s, k + 1, Len(s)))

\* Dict keys in insertion order, and a list built with `if x not in list: append(x)`
RECURSIVE DistinctInOrder(_)
DistinctInOrder(s) ==
    IF s = <<>> THEN <<>>
    ELSE LET rest == DistinctInOrder(SubSeq(s, 1, Len(s) - 1))
         IN  IF s[Len(s)] \in Range(rest) THEN rest ELSE Append(rest, s[Len(s)])

\* The orders in which os.listdir may give the names of a directory
RECURSIVE Orders(_)
Orders(S) ==
    IF S = {} THEN {<<>>}
    ELSE UNION { { <<x>> \o s : s \in Orders(S \ {x}) } : x \in S }

\* Lines 186-217 of scan_icm_files for the names in the order listed: the
\* brand list, the model list of every brand, the scene list of every
\* (brand, model)
scan_lists(order) ==
    LET icm == SelectSeq(order, LAMBDA g :
                   /\ Len(g) >= Len(DotIcm)
                   /\ ToLower(SubSeq(g, Len(g) - Len(DotIcm) + 1, Len(g))) = DotIcm
                   /\ parse_icm_filename(g) # None)
        entries == [k \in 1..Len(icm) |->
                       <<parse_icm_filename(icm[k]).brand, parse_icm_filename(icm[k]).model,
                         parse_icm_filename(icm[k]).scene>>]
        Column(es, c) == [k \in 1..Len(es) |-> es[k][c]]
        brand_keys == DistinctInOrder(Column(entries, 1))
        model_keys(b) == DistinctInOrder(Column(SelectSeq(entries, LAMBDA e : e[1] = b), 2))
        scenes_list(b, m) ==
            DistinctInOrder(Column(SelectSeq(entries, LAMBDA e : e[1] = b /\ e[2] = m), 3))
    IN  [brands |-> sorted_names(brand_keys),
         models |-> [b \in Range(brand_keys) |-> sorted_names(model_keys(b))],
         scenes |-> [p \in { <<e[1], e[2]>> : e \in Range(entries) } |->
                        sorted_names(DistinctInOrder(scenes_list(p[1], p[2])))]]

\* What the actions of the manager alone leave unchanged
lookupOnly == <<engineVars, cpu_count, total_memory, input_dir, scan_result, summary,
                detectorVars, disk, batchVars, loaders, historyVars>>

\* ICMManager.__init__ has set the fields and is about to scan the directory
InitLookup ==
    /\ disk \in { ProfilePaths(d) : d \in ProfileDirectories }
    /\ scanned = FALSE
    /\ brand_model_scene_map = {}
    /\ camera_info = NoCameraInfo
    /\ detected = <<>>
    /\ input_dir = [state |-> "missing", files |-> {}]
    /\ scan_result = None
    /\ index_lists = None
    /\ summary = None
    /\ input_files = <<InputUniverse[1]>>
    /\ config = CHOOSE c \in BatchConfigs : c.enable_icm_correction /\ c.strict_icm
    /\ icm_manager = TRUE
    /\ camera_detector = TRUE
    /\ brands = BrandsOf(brand_model_scene_map)
    /\ models = ModelsOf(brand_model_scene_map)
    /\ scenes = brand_model_scene_map
    /\ lock = {}
    /\ scan = IdleScan
    /\ readers = IdleReaders
    /\ resolved = NoneResolved
    /\ progress_callback = FALSE
    /\ status_callback = FALSE
    /\ max_workers = 0
    /\ cpu_count = 1
    /\ total_memory = HostMemory
    /\ max_threads = detect_optimal_threads(config.max_threads, cpu_count, total_memory)
    /\ outExists = {}
    /\ is_converting = FALSE
    /\ metrics = NewMetrics
    /\ icm_cache = <<>>
    /\ pc = "idle"
    /\ results = <<>>
    /\ returned = None
    /\ completed_count = 0
    /\ cur = 0
    /\ collected = {}
    /\ cancel_cursor = 0
    /\ jobs = [i \in {1} |->
                 [pc |-> "pending", camera |-> NoCamera, icm_file |-> EmptyPath, result |-> None]]
    /\ loaders = IdleLoaders
    /\ stop_called = FALSE
    /\ calls = [i \in {1} |-> {}]
    /\ existedAtStart = [i \in {1} |-> FALSE]
    /\ existedAtCheck = [i \in {1} |-> FALSE]
    /\ correction = [i \in {1} |-> "none"]
    /\ progress_calls = <<>>
    /\ status_calls = <<>>
    /\ evictions = <<>>
    /\ metrics_calculated = FALSE

\* scan_icm_files in one piece, called by the constructor or by
\* refresh_icm_database
ScanDirectory ==
    /\ brand_model_scene_map' = ScanResult(ListDir)
    /\ brands' = BrandsOf(brand_model_scene_map')
    /\ models' = ModelsOf(brand_model_scene_map')
    /\ scenes' = brand_model_scene_map'
    /\ \E order \in Orders(ListDir) : index_lists' = scan_lists(order)
    /\ icm_cache' = <<>>
    /\ scanned' = TRUE
    /\ UNCHANGED <<lookupOnly, lock, scan, readers, resolved>>

\* get_icm_file(brand, model, scene) in one piece, with the scan it starts
\* on a manager that has not scanned yet
Lookup(t, q) ==
    /\ readers[t].pc \in {"idle", "done"}
    /\ IF scanned
       THEN UNCHANGED <<brand_model_scene_map, brands, models, scenes, icm_cache, scanned,
                        index_lists>>
       ELSE /\ brand_model_scene_map' = ScanResult(ListDir)
            /\ \E order \in Orders(ListDir) : index_lists' = scan_lists(order)
            /\ brands' = BrandsOf(brand_model_scene_map')
            /\ models' = ModelsOf(brand_model_scene_map')
            /\ scenes' = brand_model_scene_map'
            /\ icm_cache' = <<>>
            /\ scanned' = TRUE
    /\ readers' = [readers EXCEPT ![t] =
          [pc |-> "done", op |-> "get_icm_file", arg |-> q, base |-> brand_model_scene_map',
           result |-> IF q \in brand_model_scene_map' THEN ResolvePath(q[1], q[2], q[3])
                      ELSE None,
           tainted |-> FALSE]]
    /\ UNCHANGED <<lookupOnly, lock, scan, resolved>>

NextLookup ==
    \/ ScanDirectory
    \/ \E t \in Readers : \E q \in LookupTriples : Lookup(t, q)

SpecLookup == InitLookup /\ [][NextLookup]_vars

\* ------------------------------------------------------------------------
\* EnhancedRAWConverter.scan_raw_files: one scan of an input directory
\* ------------------------------------------------------------------------
\* The directory scanned
InputRoot == "in"

\* The files that may lie under the input directory, in the order of their
\* path strings
ScanUniverse ==
    << [dir |-> "in", stem |-> "c", ext |-> ".arw"],
       [dir |-> "in/s1", stem |-> "a", ext |-> ".nef"],
       [dir |-> "in/s1", stem |-> "b", ext |-> ".cr3"],
       [dir |-> "in/s1", stem |-> "z", ext |-> ".txt"],
       [dir |-> "in/s2", stem |-> "a", ext |-> ".nef"],
       [dir |-> "in", stem |-> "t", ext |-> ".txt"] >>

\* Keys of SUPPORTED_FORMATS
SUPPORTED_FORMATS ==
    {".arw", ".cr2", ".cr3", ".dng", ".nef", ".raw", ".orf", ".rw2", ".pef", ".srw", ".mos"}

\* _is_raw_file, for the lower-case extensions of the universe
is_raw_file(f) == f.ext \in SUPPORTED_FORMATS

\* Position of a path in the order of the path strings
PathRank(f) == CHOOSE k \in 1..Len(ScanUniverse) : ScanUniverse[k] = f

\* sorted(raw_files)
RECURSIVE sorted(_)
sorted(files) ==
    IF files = {} THEN <<>>
    ELSE LET least == CHOOSE f \in files : \A g \in files : PathRank(f) <= PathRank(g)
         IN  <<least>> \o sorted(files \ {least})

\* scan_raw_files raising for a directory that cannot be enumerated in the
\* recursive mode as well
scan_raw_files_WalkRaises(input_path, recursive) ==
    IF input_dir.state # "listed"
    THEN [raised |-> TRUE, recursive |-> recursive, files |-> <<>>]
    ELSE [raised |-> FALSE, recursive |-> recursive,
          files |-> sorted({ f \in input_dir.files :
                               /\ is_raw_file(f)
                               /\ recursive \/ f.dir = input_path })]

\* scan_raw_files: os.walk ignores the error of a directory it cannot list
\* and yields nothing for it, os.listdir raises it
scan_raw_files(input_path, recursive) ==
    IF recursive
    THEN [raised |-> FALSE, recursive |-> TRUE,
          files |-> IF input_dir.state # "listed" THEN <<>>
                    ELSE sorted({ f \in input_dir.files : is_raw_file(f) })]
    ELSE IF input_dir.state # "listed"
    THEN [raised |-> TRUE, recursive |-> FALSE, files |-> <<>>]
    ELSE [raised |-> FALSE, recursive |-> FALSE,
          files |-> sorted({ f \in input_dir.files :
                               is_raw_file(f) /\ f.dir = input_path })]

\* A directory that is missing, that cannot be read, or that is listed with
\* some files of the universe under it
InputDirs ==
    { [state |-> "missing", files |-> {}] }
    \cup { [state |-> s, files |-> fs] : s \in {"unreadable", "listed"},
                                         fs \in SUBSET Range(ScanUniverse) }

\* An engine and an input directory; nothing else runs
InitScan ==
    /\ input_dir \in InputDirs
    /\ scan_result = None
    /\ index_lists = None
    /\ summary = None
    /\ camera_info = NoCameraInfo
    /\ detected = <<>>
    /\ input_files = <<InputUniverse[1]>>
    /\ config = CHOOSE c \in BatchConfigs : c.enable_icm_correction /\ c.strict_icm
    /\ icm_manager = TRUE
    /\ camera_detector = TRUE
    /\ disk = ProfilePaths(DefaultCatalog.files)
    /\ scanned = TRUE
    /\ brand_model_scene_map = DefaultCatalog.map
    /\ brands = BrandsOf(brand_model_scene_map)
    /\ models = ModelsOf(brand_model_scene_map)
    /\ scenes = brand_model_scene_map
    /\ lock = {}
    /\ scan = IdleScan
    /\ readers = IdleReaders
    /\ resolved = NoneResolved
    /\ progress_callback = FALSE
    /\ status_callback = FALSE
    /\ max_workers = 0
    /\ cpu_count = 1
    /\ total_memory = HostMemory
    /\ max_threads = detect_optimal_threads(config.max_threads, cpu_count, total_memory)
    /\ outExists = {}
    /\ is_converting = FALSE
    /\ metrics = NewMetrics
    /\ icm_cache = <<>>
    /\ pc = "idle"
    /\ results = <<>>
    /\ returned = None
    /\ completed_count = 0
    /\ cur = 0
    /\ collected = {}
    /\ cancel_cursor = 0
    /\ jobs = [i \in {1} |->
                 [pc |-> "pending", camera |-> NoCamera, icm_file |-> EmptyPath, result |-> None]]
    /\ loaders = IdleLoaders
    /\ stop_called = FALSE
    /\ calls = [i \in {1} |-> {}]
    /\ existedAtStart = [i \in {1} |-> FALSE]
    /\ existedAtCheck = [i \in {1} |-> FALSE]
    /\ correction = [i \in {1} |-> "none"]
    /\ progress_calls = <<>>
    /\ status_calls = <<>>
    /\ evictions = <<>>
    /\ metrics_calculated = FALSE

\* One call of scan_raw_files
ScanRawFiles ==
    /\ scan_result = None
    /\ \E recursive \in BOOLEAN : scan_result' = scan_raw_files(InputRoot, recursive)
    /\ UNCHANGED <<engineVars, cpu_count, total_memory, input_dir, summary, index_lists,
                   managerVars, catalogVars, detectorVars, batchVars, loaders, historyVars>>

SpecScan == InitScan /\ [][ScanRawFiles]_vars

\* ------------------------------------------------------------------------
\* ConversionMetrics.get_summary: the summary of one accumulator
\* ------------------------------------------------------------------------
\* Largest total size of the accumulators, in MiB
MaxSize == 8

\* The accumulators of finished runs: a fresh one, and those of one or two
\* Completed files with their total sizes
FinishedMetrics ==
    { NewMetrics }
    \cup { [NewMetrics EXCEPT !.total_files = n, !.completed_files = n,
                              !.total_size_input = i, !.total_size_output = o]
            : n \in 1..MaxFiles, i \in 0..MaxSize, o \in 0..MaxSize }

\* An accumulator after a run; nothing else runs
InitSummary ==
    /\ metrics \in FinishedMetrics
    /\ summary = None
    /\ camera_info = NoCameraInfo
    /\ detected = <<>>
    /\ input_dir = [state |-> "missing", files |-> {}]
    /\ scan_result = None
    /\ index_lists = None
    /\ input_files = <<InputUniverse[1]>>
    /\ config = CHOOSE c \in BatchConfigs : c.enable_icm_correction /\ c.strict_icm
    /\ icm_manager = TRUE
    /\ camera_detector = TRUE
    /\ disk = ProfilePaths(DefaultCatalog.files)
    /\ scanned = TRUE
    /\ brand_model_scene_map = DefaultCatalog.map
    /\ brands = BrandsOf(brand_model_scene_map)
    /\ models = ModelsOf(brand_model_scene_map)
    /\ scenes = brand_model_scene_map
    /\ lock = {}
    /\ scan = IdleScan
    /\ readers = IdleReaders
    /\ resolved = NoneResolved
    /\ progress_callback = FALSE
    /\ status_callback = FALSE
    /\ max_workers = 0
    /\ cpu_count = 1
    /\ total_memory = HostMemory
    /\ max_threads = detect_optimal_threads(config.max_threads, cpu_count, total_memory)
    /\ outExists = {}
    /\ is_converting = FALSE
    /\ icm_cache = <<>>
    /\ pc = "idle"
    /\ results = <<>>
    /\ returned = None
    /\ completed_count = 0
    /\ cur = 0
    /\ collected = {}
    /\ cancel_cursor = 0
    /\ jobs = [i \in {1} |->
                 [pc |-> "pending", camera |-> NoCamera, icm_file |-> EmptyPath, result |-> None]]
    /\ loaders = IdleLoaders
    /\ stop_called = FALSE
    /\ calls = [i \in {1} |-> {}]
    /\ existedAtStart = [i \in {1} |-> FALSE]
    /\ existedAtCheck = [i \in {1} |-> FALSE]
    /\ correction = [i \in {1} |-> "none"]
    /\ progress_calls = <<>>
    /\ status_calls = <<>>
    /\ evictions = <<>>
    /\ metrics_calculated = FALSE

\* One call of get_summary
GetSummary ==
    /\ summary = None
    /\ summary' = get_summary(metrics)
    /\ UNCHANGED <<engineVars, cpu_count, total_memory, input_dir, scan_result, index_lists,
                   managerVars, catalogVars, detectorVars, batchVars, loaders, historyVars>>

SpecSummary == InitSummary /\ [][GetSummary]_vars

\* ------------------------------------------------------------------------
\* convert_batch under a fair scheduler
\* ------------------------------------------------------------------------
\* The steps of the calling thread, of the pool and of the jobs: each of them
\* is a call that returns, or a thread the scheduler runs
Progress ==
    \/ ConvertBatchBegin
    \/ InlineCall
    \/ InlineReturn
    \/ SubmitAll
    \/ \E i \in Jobs : PoolStartJob(i)
    \/ \E i \in Jobs : JobCheck(i)
    \/ \E i \in Jobs : JobDecode(i)
    \/ \E i \in Jobs : JobCorrect(i)
    \/ \E i \in Jobs : JobEncode(i)
    \/ \E i \in Jobs : CollectTake(i)
    \/ CollectHandle
    \/ CollectEnd
    \/ CancelStep
    \/ Shutdown
    \/ Finally

\* stop_conversion() may or may not be called
NextLive ==
    \/ Progress
    \/ StopConversion

\* The runs with the default settings on a fresh engine with callbacks set,
\* over one file and over two files of one directory
InitLive ==
    /\ Init
    /\ config \in BatchConfigs
    /\ brand_model_scene_map = DefaultCatalog.map
    /\ metrics = NewMetrics
    /\ progress_callback
    /\ input_files \in {<<InputUniverse[1]>>, <<InputUniverse[1], InputUniverse[2]>>}

SpecLive == InitLive /\ [][NextLive]_vars /\ WF_vars(Progress)

\* ------------------------------------------------------------------------
\* Properties
\* ------------------------------------------------------------------------
Ended == pc \in {"returned", "raised"}
Terminal == {COMPLETED, FAILED, SKIPPED}
MultiFile == Len(input_files) > 1

\* C1: whenever convert_batch returns a list, whatever the order in which the
\* jobs completed, the list is as long as the input list and its i-th entry
\* is a ConversionResult whose input_path is input_files[i].
C1_ResultsFollowInputOrder ==
    pc = "returned" =>
        /\ Len(returned) = Len(input_files)
        /\ \A i \in 1..Len(input_files) :
              /\ returned[i] # None
              /\ returned[i].status \in Terminal
              /\ returned[i].input_path = input_files[i]

\* A two-file run returned after the second job was collected first
C1_Witness ==
    /\ pc = "returned"
    /\ Len(input_files) = 2
    /\ Len(status_calls) = 2
    /\ status_calls[1][2] = 2
    /\ status_calls[2][2] = 1

\* C2: after every finished convert_batch run the metrics satisfy
\* completed_files + failed_files + skipped_files = total_files.
C2_MetricsAddUp ==
    Ended => metrics.completed_files + metrics.failed_files + metrics.skipped_files
                = metrics.total_files

\* C3: when stop_conversion() is called during a multi-file run, convert_batch
\* still returns a result list (it does not raise), and on return the metrics
\* have been folded from the whole result list and finalised.
C3_StopEndsNormally ==
    (Ended /\ MultiFile /\ stop_called) =>
        /\ pc = "returned"
        /\ metrics.total_files = Len(input_files)
        /\ metrics_calculated

\* C4: a job whose destination file exists when the job starts makes no
\* camera-detection, decode, colour-correction or encode call, and its
\* result is Skipped.
C4_ExistingDestinationSkipped ==
    \A i \in Jobs :
        existedAtStart[i] =>
            /\ calls[i] = {}
            /\ jobs[i].pc = "done" => jobs[i].result.status = SKIPPED

\* A job that found its destination present at its start has finished
C4_Witness ==
    \E i \in Jobs : existedAtStart[i] /\ jobs[i].pc = "done" /\ MultiFile

\* C5: a Skipped result, of a job or in the result list, belongs to a job
\* whose destination existed at its existence check and which did no decode
\* work; failures, cancellation and callback errors never give Skipped.
C5_SkippedOnlyForExistingDestination ==
    \A i \in Jobs :
        /\ (jobs[i].result # None /\ jobs[i].result.status = SKIPPED)
              => (existedAtCheck[i] /\ calls[i] = {})
        /\ (i \in DOMAIN results /\ results[i] # None /\ results[i].status = SKIPPED)
              => (existedAtCheck[i] /\ calls[i] = {})

\* A returned list with a Skipped entry next to a Failed one
C5_Witness ==
    /\ pc = "returned"
    /\ \E i, j \in Jobs : returned[i].status = SKIPPED /\ returned[j].status = FAILED

NotFoundMessage == <<"ConvertFailed", "IcmFileNotFound">>
EncodeFailedMessage == <<"ConvertFailed", "EncodeFailed">>
Finished(i) == jobs[i].pc = "done"

\* C6: colour correction is enabled and the correction step of a job finds no
\* profile. Under strict mode the result is Failed with the profile-not-found
\* message and nothing is encoded; under lenient mode the job goes on to the
\* encode step uncorrected and its result is Completed with icm_applied false
\* and no profile recorded. The only other outcome of the lenient job is the
\* encode write itself raising, which gives Failed with the encode error.
C6_NoProfileStrictOrLenient ==
    \A i \in Jobs :
        (config.enable_icm_correction /\ correction[i] = "not_found" /\ Finished(i)) =>
            IF config.strict_icm
            THEN /\ jobs[i].result.status = FAILED
                 /\ jobs[i].result.error_message = NotFoundMessage
                 /\ "encode" \notin calls[i]
            ELSE /\ "encode" \in calls[i]
                 /\ \/ /\ jobs[i].result.status = COMPLETED
                       /\ ~jobs[i].result.icm_applied
                       /\ ~Truthy(jobs[i].result.icm_file)
                    \/ /\ jobs[i].result.status = FAILED
                       /\ jobs[i].result.error_message = EncodeFailedMessage

\* A lenient job for a detected Nikon D850 without profile has completed
C6_Witness ==
    \E i \in Jobs :
        /\ correction[i] = "not_found" /\ Finished(i) /\ ~config.strict_icm
        /\ jobs[i].result.status = COMPLETED
        /\ jobs[i].result.camera_brand = Nikon /\ jobs[i].result.camera_model = D850

LoadOrTransformFailed(i) == correction[i] \in {"load_failed", "transform_failed"}

\* C7: a profile resolves but loading it or the colour transform fails. Under
\* strict mode the result is Failed with the correction error and nothing is
\* encoded; under lenient mode the job goes on to the encode step with the
\* uncorrected pixels and its result is Completed. The only other outcome of
\* the lenient job is the encode write itself raising, which gives Failed
\* with the encode error.
C7_FailedCorrectionStrictOrLenient ==
    \A i \in Jobs :
        (LoadOrTransformFailed(i) /\ Finished(i)) =>
            IF config.strict_icm
            THEN /\ jobs[i].result.status = FAILED
                 /\ jobs[i].result.error_message
                       = <<"ConvertFailed", "IcmCorrectionFailed", correction[i]>>
                 /\ "encode" \notin calls[i]
            ELSE /\ "encode" \in calls[i]
                 /\ \/ jobs[i].result.status = COMPLETED
                    \/ /\ jobs[i].result.status = FAILED
                       /\ jobs[i].result.error_message = EncodeFailedMessage

\* A lenient job whose profile failed to load has completed
C7_Witness ==
    \E i \in Jobs :
        /\ correction[i] = "load_failed" /\ Finished(i) /\ ~config.strict_icm
        /\ jobs[i].result.status = COMPLETED

C9_CacheWithinLimit == Len(icm_cache) <= CacheLimit

\* C10: a change of the profile cache that removes an entry without clearing
\* the cache removes exactly the entry inserted earliest and keeps the order
\* of the others; a cache hit leaves the cache as it is.
C10_FifoEviction ==
    [][ /\ (icm_cache' # icm_cache /\ icm_cache' # <<>>) =>
              \/ \E q \in OnDisk \ Range(icm_cache) : icm_cache' = Append(icm_cache, q)
              \/ /\ Len(icm_cache) > 1
                 /\ \/ icm_cache' = Tail(icm_cache)
                    \/ \E q \in OnDisk \ Range(Tail(icm_cache)) :
                          icm_cache' = Append(Tail(icm_cache), q)
                 /\ evictions' = Append(evictions, Head(icm_cache))
        /\ (\E t \in 1..NumLoaders : loaders[t].pc = "hit" /\ loaders'[t].pc = "idle")
              => icm_cache' = icm_cache
      ]_vars

\* The cache, over its limit, has evicted its oldest entries
C10_Witness ==
    /\ Len(evictions) = MaxEvictions
    /\ evictions[1] = ProfileNo(1)
    /\ Len(icm_cache) = CacheLimit + 1

\* C11: every read operation that ran next to a catalog scan returned what it
\* returns on the complete catalog from before the scan or on the complete
\* catalog after it; in particular get_icm_file for a triple whose file is
\* there before and after the scan does not return None.
C11_ReadsSeeWholeCatalog ==
    \A t \in Readers :
        (readers[t].pc = "done" /\ readers[t].op # "load_icc_profile") =>
            \/ readers[t].result = Answer(readers[t].base, readers[t].op, readers[t].arg)
            \/ readers[t].result = Answer(FullMap, readers[t].op, readers[t].arg)

\* C12: in a multi-file run, once stop_conversion() has been called, the
\* collecting thread does not enter the loop body for a completion it takes
\* from the pool afterwards, and the progress and status callbacks are invoked
\* nowhere but in that loop body: no completion taken after the stop leads to
\* a callback invocation for the rest of the run.
C12_NoCallbackAfterStop ==
    [][ (MultiFile /\ stop_called) =>
           /\ (pc' = "handle") => (pc = "handle" /\ cur' = cur)
           /\ (collected' # collected) => (pc' = "cancel" /\ cur' = 0)
           /\ (pc # "handle") => /\ progress_calls' = progress_calls
                                 /\ status_calls' = status_calls
      ]_vars

\* After one reported completion the stop was called, and the next completion
\* taken from the pool sent the loop into the cancel branch
C12_Witness ==
    /\ MultiFile /\ stop_called /\ progress_callback /\ status_callback
    /\ pc = "cancel"
    /\ Len(progress_calls) = 1
    /\ Cardinality(collected) = 2

\* C13: convert_batch does not return or raise while a job of the run is
\* executing: when the call has ended, every job that started executing has
\* reached Completed, Failed or Skipped, also after stop_conversion().
C13_NoJobInterrupted ==
    Ended =>
        \A i \in Jobs :
            \/ jobs[i].pc \in {"pending", "cancelled"}
            \/ /\ jobs[i].pc = "done"
               /\ jobs[i].result.status \in Terminal

\* A stopped run has ended; a job the loop never collected ran to its encode
\* and completed
C13_Witness ==
    /\ Ended /\ MultiFile /\ stop_called
    /\ \E i \in Jobs \ collected :
          /\ jobs[i].pc = "done"
          /\ "encode" \in calls[i]
          /\ jobs[i].result.status = COMPLETED

\* C14: a per-file error (directory preparation, decode, strict colour
\* correction, encode) never aborts the batch: a run in which stop_conversion()
\* was not called ends by returning, and every job of it has reached its own
\* terminal status, recorded in the returned list.
C14_PerFileErrorsContained ==
    (Ended /\ ~stop_called) =>
        /\ pc = "returned"
        /\ \A i \in Jobs :
              /\ jobs[i].pc = "done"
              /\ jobs[i].result.status \in Terminal
              /\ returned[i].status \in Terminal

\* C15: every ConversionResult with status Failed carries a non-empty
\* error_message and every one with status Completed an empty error_message,
\* be it the result a job produced or an entry of the result list.
C15_FailedHasMessage ==
    /\ \A i \in Jobs :
          jobs[i].result # None =>
              /\ jobs[i].result.status = FAILED => jobs[i].result.error_message # <<>>
              /\ jobs[i].result.status = COMPLETED => jobs[i].result.error_message = <<>>
    /\ \A i \in DOMAIN results :
          results[i] # None =>
              /\ results[i].status = FAILED => results[i].error_message # <<>>
              /\ results[i].status = COMPLETED => results[i].error_message = <<>>

\* A callback raised for some job: its slot holds the Failed result of the
\* except branch instead of the result the job produced
CallbackRaised ==
    \E i \in DOMAIN results : results[i] # None /\ results[i] # jobs[i].result

\* C16: in every run over N >= 1 files with a progress callback set, in which
\* stop_conversion() is not called and no callback raises, the progress
\* callback is invoked exactly N times and its k-th invocation carries (k, N).
C16_ProgressOncePerJob ==
    (pc = "returned" /\ progress_callback /\ ~stop_called /\ ~CallbackRaised) =>
        progress_calls = [k \in 1..N |-> <<k, N>>]

C18_PoolBound ==
    MultiFile =>
        Cardinality(Running)
            <= (IF max_workers # 0 THEN max_workers
                ELSE detect_optimal_threads(config.max_threads, cpu_count, total_memory))

\* The pool is full and a job waits in its queue
C18_Witness ==
    /\ MultiFile
    /\ Cardinality(Running) = Workers
    /\ Pending # {}


\* C19: camera normalisation is idempotent: for every (make, model) of the
\* metadata, normalize_camera_model applied to the (brand, model) pair it
\* returned yields that same pair again.
C19_NormalisationIdempotent ==
    Len(detected) >= 2 => detected[2] = detected[1]

C21_ResolvesExactFile ==
    \A t \in Readers :
        (readers[t].pc = "done" /\ readers[t].op = "get_icm_file") =>
            LET q == readers[t].arg
                r == readers[t].result
                named == ScanResult(ListDir)
            IN  /\ r # None => (r \in disk /\ r.dir = IcmDirectory /\ q \in named)
                /\ (<<q[1], q[2]>> \in ModelsOf(named) /\ q \notin named) => r = None
                /\ ListDir = {CanonGenericFile} =>
                      /\ q = <<Canon, EOSR5, Generic>> =>
                            r = PathJoin(IcmDirectory, CanonGenericFile)
                      /\ q = <<Canon, EOSR5, Vivid>> => r = None

\* The directory holds only CanonEOSR5-Generic.icm and get_icm_file returned
\* None for (Canon, EOSR5, Vivid)
C21_Witness ==
    /\ ListDir = {CanonGenericFile}
    /\ \E t \in Readers :
          /\ readers[t].pc = "done"
          /\ readers[t].op = "get_icm_file"
          /\ readers[t].arg = <<Canon, EOSR5, Vivid>>
          /\ <<Canon, EOSR5>> \in ModelsOf(brand_model_scene_map)
          /\ readers[t].result = None

\* C22: after a scan, every profile file whose name starts with a known brand
\* prefix is listed with the first matching prefix as its brand, the text
\* between the prefix and the LAST '-' as its model and the text after the
\* last '-' as its scene, also when the name holds more than one '-'.
C22_ModelEndsAtLastDash ==
    scanned =>
        \A f \in { g \in ListDir :
                      /\ ToLower(SubSeq(g, Len(g) - Len(DotIcm) + 1, Len(g))) = DotIcm
                      /\ parse_icm_filename(g) # None } :
            LET basename == SubSeq(f, 1, Len(f) - Len(DotIcm))
                matching == { p \in 1..Len(BrandPrefixes) :
                                 StartsWith(ToLower(basename), ToLower(BrandPrefixes[p])) }
            IN  matching # {} =>
                    LET p == CHOOSE x \in matching : \A y \in matching : x <= y
                        n == Len(BrandPrefixes[p])
                        rest == SubSeq(basename, n + 1, Len(basename))
                        dashes == { i \in 1..Len(rest) : rest[i] = "-" }
                        last == CHOOSE i \in dashes : \A j \in dashes : j <= i
                    IN  <<Title(SubSeq(basename, 1, n)),
                          clean_model_name(SubSeq(rest, 1, last - 1)),
                          clean_scene_name(SubSeq(rest, last + 1, Len(rest)))>>
                            \in brand_model_scene_map

\* C23: load_icc_profile never raises, for any path and whatever other
\* load_icc_profile and scan calls run next to it: no call ends in an
\* exception.
C23_LoadNeverRaises ==
    \A t \in 1..NumLoaders : loaders[t].pc # "raised"

\* C24: camera identification never raises and never aborts a batch: a job
\* that ran the identification went on to decoding, with no identity when the
\* input is missing, cannot be opened or carries no usable metadata, and no
\* job ends at the identification step.
C24_IdentificationNeverAborts ==
    \A i \in Jobs :
        "detect" \in calls[i] =>
            /\ jobs[i].pc \in {"decode", "correct", "encode", "done"}
            /\ jobs[i].pc = "done" => "decode" \in calls[i]
            /\ jobs[i].camera \in {NoCamera, DetectedCamera(FilePair(i).input)}
            /\ DetectedCamera(FilePair(i).input) = None => jobs[i].camera = NoCamera

\* A returned multi-file run with a job whose identification failed on a file
\* of a known camera and which went on to decoding, next to a Completed job
C24_Witness ==
    /\ pc = "returned"
    /\ \E i, j \in Jobs :
          /\ i # j
          /\ "detect" \in calls[i]
          /\ DetectedCamera(FilePair(i).input) # None
          /\ jobs[i].camera = NoCamera
          /\ "decode" \in calls[i]
          /\ returned[j].status = COMPLETED

\* C25: a job's result is Completed only after its encode write returned:
\* the step that gives a job a Completed result is the encode step with the
\* destination written, after a decode and, with correction enabled under
\* strict mode, an applied correction; a job that ends at its decode or
\* correction step, or whose encode raised, is not Completed.
C25_CompletedOnlyAfterEncode ==
    [][\A i \in Jobs :
          (jobs[i].pc # "done" /\ jobs'[i].pc = "done"
              /\ jobs'[i].result.status = COMPLETED) =>
                /\ jobs[i].pc = "encode"
                /\ FilePair(i).output \in outExists'
                /\ "decode" \in calls[i]
                /\ jobs'[i].result.error_message = <<>>
                /\ (config.enable_icm_correction /\ config.strict_icm)
                      => correction[i] = "applied"]_vars

\* A returned strict run with a Completed job next to a job that failed at
\* its correction step and never reached the encode step
C25_Witness ==
    /\ pc = "returned"
    /\ config.strict_icm
    /\ \E i, j \in Jobs :
          /\ returned[i].status = COMPLETED /\ correction[i] = "applied"
          /\ jobs[j].result.status = FAILED
          /\ "correct" \in calls[j] /\ "encode" \notin calls[j]

\* C26: scan_raw_files raises whenever the input directory cannot be
\* enumerated, because it is missing or unreadable, in the recursive and in
\* the non-recursive mode; when it returns a list, the list is sorted.
C26_ScanRaisesOrSorted ==
    scan_result # None =>
        /\ input_dir.state # "listed" => scan_result.raised
        /\ ~scan_result.raised =>
              \A k \in 1..(Len(scan_result.files) - 1) :
                  PathRank(scan_result.files[k]) < PathRank(scan_result.files[k + 1])

\* C27: the output path of an input mirrors the input's path relative to the
\* input directory, under the output directory and with the extension .jpg:
\* two inputs of one batch that differ in their relative path, be it only
\* in the sub-directory, get different output paths.
C27_OutputPathsDistinct ==
    \A i, j \in Jobs :
        (input_files[i].dir # input_files[j].dir
            \/ input_files[i].stem # input_files[j].stem)
                => FilePair(i).output # FilePair(j).output

\* C28: after a finished run whose completed files have a total input size
\* above 0 and a total output size of at most the total input size, the
\* size-reduction ratio of the summary equals
\* (1 - total_output / total_input) * 100 and lies between 0 and 100.
C28_SizeReduction ==
    (/\ summary # None
     /\ metrics.total_size_input > 0
     /\ metrics.total_size_output <= metrics.total_size_input) =>
        LET r == summary.size_compression
        IN  /\ r.num * metrics.total_size_input
                  = (metrics.total_size_input - metrics.total_size_output) * 100 * r.den
            /\ 0 <= r.num
            /\ r.num <= 100 * r.den

\* C29: the metrics accumulator is written only by the thread that called
\* convert_batch, when it starts the run and in its finally block after the
\* jobs have settled: no step of a job in convert_single_file changes the
\* metrics, and no step changes them while a job is executing.
C29_MetricsWrittenByCollectorOnly ==
    [][metrics' # metrics =>
          /\ pc \in {"idle", "finally"}
          /\ jobs' = jobs
          /\ Running = {}]_vars

\* A returned run of two jobs that both Completed, folded into the metrics
C29_Witness ==
    /\ pc = "returned"
    /\ metrics_calculated
    /\ Len(input_files) = 2
    /\ metrics.completed_files = 2
    /\ metrics.total_size_input > 0

\* C30: in a multi-file run every slot of the result list that has been
\* written holds the result its job produced: an exception of the progress
\* or status callback never changes the status recorded for a job that
\* Completed or was Skipped.
C30_SlotKeepsJobResult ==
    \A i \in DOMAIN results :
        (results[i] # None /\ jobs[i].result.status \in {COMPLETED, SKIPPED})
            => results[i].status = jobs[i].result.status

\* C31: once the collecting loop has observed the cancellation, no job of
\* the run that had not started executing starts: a job that is pending
\* while the loop cancels the futures stays pending or becomes cancelled.
C31_NoStartAfterCancellationObserved ==
    [][\A i \in Jobs :
          (pc = "cancel" /\ jobs[i].pc = "pending")
              => jobs'[i].pc \in {"pending", "cancelled"}]_vars

C33_OneWriterPerDestination ==
    \A i, j \in Jobs :
        (/\ i # j
         /\ FilePair(i).output = FilePair(j).output
         /\ jobs[i].result # None /\ jobs[i].result.status = COMPLETED
         /\ jobs[j].result # None) => jobs[j].result.status # COMPLETED

\* C34: a result has icm_applied true only if the colour transform was
\* applied to the pixels of its file: a lenient job whose profile resolved
\* but failed to load or to transform does not report icm_applied.
C34_AppliedMeansTransformed ==
    \A i \in Jobs :
        (jobs[i].result # None /\ jobs[i].result.icm_applied)
            => correction[i] = "applied"

\* C35: after a scan of an unchanged profile directory every triple the
\* catalog lists resolves: get_icm_file called with a brand, a model of that
\* brand and a scene of that model, as the lists of the scan give them,
\* returns the path of an existing file and never None.
C35_ListedTriplesResolve ==
    \A t \in Readers :
        (/\ readers[t].pc = "done" /\ readers[t].op = "get_icm_file"
         /\ readers[t].arg[1] \in brands
         /\ <<readers[t].arg[1], readers[t].arg[2]>> \in models
         /\ readers[t].arg \in scenes) =>
            /\ readers[t].result # None
            /\ readers[t].result \in disk

\* C36: is_converting is true only while a convert_batch call is in
\* progress: whenever the call has returned or raised, for any reason
\* including a failure to prepare the output directory, it is false.
C36_FlagClearedAtExit ==
    pc \in {"returned", "raised"} => ~is_converting

\* Strictly increasing in the order of str: sorted and free of duplicates
Increasing(s) == \A k \in 1..(Len(s) - 1) : StrLess(s[k], s[k + 1])

\* C37: after a completed scan the four index structures agree: the brand
\* list is the sorted keys of the brand-model-scene map, the model list of
\* every brand the sorted models of that brand, the scene list of every
\* (brand, model) the sorted, duplicate-free scenes of that pair, and no
\* listed brand has an empty model list and no listed model an empty scene
\* list.
C37_IndexAgrees ==
    (scanned /\ index_lists # None) =>
        /\ Range(index_lists.brands) = BrandsOf(brand_model_scene_map)
        /\ Range(index_lists.brands) = brands
        /\ Increasing(index_lists.brands)
        /\ DOMAIN index_lists.models = brands
        /\ \A b \in brands :
              /\ Range(index_lists.models[b])
                    = { t[2] : t \in { u \in brand_model_scene_map : u[1] = b } }
              /\ Range(index_lists.models[b]) = { p[2] : p \in { r \in models : r[1] = b } }
              /\ Increasing(index_lists.models[b])
              /\ index_lists.models[b] # <<>>
        /\ DOMAIN index_lists.scenes = models
        /\ \A p \in models :
              /\ Range(index_lists.scenes[p])
                    = { t[3] : t \in { u \in brand_model_scene_map :
                                          u[1] = p[1] /\ u[2] = p[2] } }
              /\ Range(index_lists.scenes[p])
                    = { t[3] : t \in { u \in scenes : u[1] = p[1] /\ u[2] = p[2] } }
              /\ Increasing(index_lists.scenes[p])
              /\ index_lists.scenes[p] # <<>>

\* A scanned directory of two brands, with two scenes for one model
C37_Witness ==
    /\ scanned /\ index_lists # None
    /\ Len(index_lists.brands) = 2
    /\ \E p \in models : Len(index_lists.scenes[p]) = 2

\* C38: every convert_batch call over a finite input list eventually ends,
\* by returning or by raising, whether or not stop_conversion() is called
\* during the run, provided every call a job makes returns.
C38_BatchEnds == (pc # "idle") ~> Ended

\* A multi-file run that was stopped has ended with a job cancelled
C38_Witness ==
    /\ Ended /\ stop_called /\ MultiFile
    /\ \E i \in Jobs : jobs[i].pc = "cancelled"

====
